---- MODULE Spec2Model ----
(***************************************************************************)
(* GateKeeper: per-IP rate limiter, risk classifier, reputation store and  *)
(* the request handler's response engine, modelled from the Go sources.    *)
(*                                                                         *)
(* Time is an integer clock `now`; durations (window, ttl) are counted in  *)
(* ticks of that clock.                                                    *)
(***************************************************************************)
EXTENDS Integers, Naturals, Sequences, FiniteSets, TLC

(***************************************************************************)
(* Bounds of the model                                                     *)
(***************************************************************************)
\* largest rate the limiter is constructed with (NewIPRateLimiter's rate)
MaxRate == 2
\* DefaultWindow / the window NewGateKeeper passes: 1 * time.Minute.  The clock
\* counts minutes.
Window == 1
\* a visitor's count is not incremented past this value: one denial is seen
MaxCount == MaxRate + 1
\* the clock stops here: late enough for an entry to go idle (> 2 x window)
MaxTime == 2 * Window + 1
\* the store's ttl (NewIPDatabase's ttl), in clock ticks
TTL == 2

(***************************************************************************)
(* domain: IPScore thresholds and the risk classifier                      *)
(***************************************************************************)
ScoreLow == 25
ScoreMedium == 75
ScoreHigh == 100
ScoreThreshold == 75

SeverityLow == "Low"
SeverityMedium == "Medium"
SeverityHigh == "High"

\* mutant: the comparison of README's "score >= 75"
IsHighRiskGeq(score) == score >= ScoreThreshold

\* (i *IPInfo) IsHighRisk
IsHighRisk(score) == score > ScoreThreshold

\* mutant: the Medium tier starts above ScoreLow instead of at it
GetSeverityStrictLow(score) ==
    IF score > ScoreThreshold THEN SeverityHigh
    ELSE IF score > ScoreLow THEN SeverityMedium
    ELSE SeverityLow

\* (i *IPInfo) GetSeverity: the switch's cases in order
GetSeverity(score) ==
    IF score > ScoreThreshold THEN SeverityHigh
    ELSE IF score >= ScoreLow THEN SeverityMedium
    ELSE SeverityLow

(***************************************************************************)
(* Identities                                                              *)
(***************************************************************************)
\* client addresses as extractClientIP returns them, not on the exclusion list
IPs == {"a", "b"}

\* config.ExcludedIPs
ExcludedIPs == {"x"}

\* client addresses in a private range or on the loopback
LocalIPs == {"p", "l"}

\* every address a request can come from
AllIPs == IPs \cup ExcludedIPs \cup LocalIPs

\* the addresses as net.ParseIP returns them: four octets
Octets(ip) ==
    IF ip = "a" THEN <<172, 32, 0, 1>>
    ELSE IF ip = "b" THEN <<203, 0, 113, 7>>
    ELSE IF ip = "p" THEN <<172, 31, 255, 254>>
    ELSE IF ip = "l" THEN <<127, 0, 0, 1>>
    ELSE <<192, 0, 2, 1>>

\* net.IP.IsPrivate on an IPv4 address: 10/8, 172.16/12, 192.168/16
IsPrivate(o) ==
    \/ o[1] = 10
    \/ o[1] = 172 /\ (o[2] \div 16) * 16 = 16
    \/ o[1] = 192 /\ o[2] = 168

\* net.IP.IsLoopback on an IPv4 address: 127/8
IsLoopback(o) == o[1] = 127

\* the addresses whose requests the handler specification follows
ReqIPs == {"a"} \cup ExcludedIPs

\* connections the HTTP server can be serving, one handler goroutine each
Conns == {"c1", "c2"}

\* the connections whose requests the handler specification follows, one
\* request after the other
Serving == {"c1"}

\* UniFi controllers named in the configuration
Clients == {1, 2}

\* the request targets (r.RequestURI) the handler specification follows
ReqPaths == {"/"}

\* savePayload was not called: nothing returned, nothing written
NoCapture == [called |-> FALSE, ret |-> "", wrote |-> {}]

\* how savePayload goes in the handler specification: it is not called, as
\* config.Payload.Enabled is false
ReqPayloads == {NoCapture}

\* abuseConfidenceScore values AbuseIPDB answers with: the two sides of the threshold
CheckScores == {ScoreThreshold, ScoreThreshold + 1}

\* the sync.RWMutex values the queue can create
MaxMutexes == 3

\* goroutines that call the limiter directly
Threads == {"t1", "t2"}

\* the limiter's cleanupLoop goroutine
Sweeper == "gc"

\* sync.RWMutex: not held
Free == "free"

VARIABLES
    \* ---- the clock
    now,
    \* ---- ratelimit.IPRateLimiter
    visitors,   \* map[string]*visitor: a function on the IPs that have an entry
    rate,       \* rl.rate
    mu,         \* rl.mu: Free or the goroutine holding it
    \* ---- goroutines inside the limiter's methods
    lpc,        \* position of each goroutine
    lip,        \* the ip argument
    lnow,       \* the local `now` of Allow / cleanup
    lload,      \* the count read by v.count++ before it is stored back
    lret,       \* what the finished Allow call returned and left behind
    \* ---- history of the limiter (what callers have seen)
    gw,         \* per ip: the fixed window the calls so far define
    \* ---- domain classifier driver
    cscore,     \* the score under classification
    cout,       \* the classifier's answer
    \* ---- database.IPDatabase and the UniFi controllers
    db,         \* table ip_info: a row per address
    fw,         \* per controller: group_members of the WAN_IN firewall group
    unifiClients, \* g.unifiClients: the controllers whose Login succeeded, in order
    \* ---- GateKeeper.handler, one goroutine per connection
    hpc,        \* position of the handler
    hip,        \* ip := g.extractClientIP(r)
    hinfo,      \* the *domain.IPInfo the handler holds
    hidx,       \* blockIPInUniFi's position in g.unifiClients
    hsnap,      \* the group members AddIPToFirewall fetched
    resp,       \* what the client gets
    hold,       \* the tarpit goroutine of the connection
    \* ---- history of each request, and of the firewall calls
    eff,        \* the collaborators the request has called
    hhit,       \* whether db.Get answered the request
    hord,       \* the ordinal of the request in its identity's rate window
    hhj,        \* how the connection takeover went
    tried,      \* controllers on which AddIPToFirewall was called
    okc,        \* controllers whose AddIPToFirewall returned nil
    failc,      \* controllers whose AddIPToFirewall returned an error
    fwok,       \* addresses for which some AddIPToFirewall returned nil
    seen,       \* per ip: when and with what Check was last answered
    \* ---- callers of the database other than the handler
    sop,        \* the last call on the IPDatabase and what it returned
    spc,        \* position of GetStats
    stats,      \* the Stats that GetStats is filling
    \* ---- the tarpit goroutine of each connection
    tp,         \* when it started, its ticker, the bytes it wrote
    \* ---- the notification goroutines, per destination
    ntf,        \* how many are sending, have sent, have failed
    \* ---- config.Payload.Directory
    pfiles,     \* the files savePayload has written
    \* ---- cache.IPCache
    entries,    \* c.entries: an entry per address
    \* ---- queue.IPQueue, its mutexes and its callers
    ipScan,     \* q.ipScan: the mutex of each key, 0 when the key has none
    allocated,  \* how many sync.RWMutex values Get has created
    owner,      \* per mutex: Free or the goroutine that holds it
    qpc,        \* position of each caller
    qkey,       \* the key a caller is working on
    qref        \* the mutex Get returned to the caller

limVars == <<visitors, rate, mu>>
thrVars == <<lpc, lip, lnow, lload, lret>>
clsVars == <<cscore, cout>>
extVars == <<db, fw, unifiClients>>
hdlVars == <<hpc, hip, hinfo, hidx, hsnap, resp, hold>>
histVars == <<eff, hhit, hord, hhj, tried, okc, failc, fwok, seen>>
gkVars == <<extVars, hdlVars, histVars>>
stoVars == <<sop, spc, stats>>
queVars == <<ipScan, allocated, owner, qpc, qkey, qref>>
vars == <<now, limVars, thrVars, gw, clsVars, stoVars, tp, ntf, pfiles, entries, queVars, gkVars>>

(***************************************************************************)
(* ratelimit: the visitor map                                              *)
(***************************************************************************)
\* a key the map does not hold
NoVisitor == [present |-> FALSE, count |-> 0, lastReset |-> 0, lastAccess |-> 0]

\* v, exists := rl.visitors[ip]
Has(m, ip) == m[ip].present

\* delete(rl.visitors, ip)
MapDelete(m, ip) == [m EXCEPT ![ip] = NoVisitor]

\* rl.visitors[ip] = v
MapPut(m, ip, v) == [m EXCEPT ![ip] = v]

\* mutant: a first sighting that starts the count at 0
NewVisitorZero(t) == [present |-> TRUE, count |-> 0, lastReset |-> t, lastAccess |-> t]

\* &visitor{count: 1, lastReset: now, lastAccess: now}
NewVisitor(t) == [present |-> TRUE, count |-> 1, lastReset |-> t, lastAccess |-> t]

\* mutant: every call inside the window moves the window's start
TouchVisitorSliding(v, t) == [v EXCEPT !.lastAccess = t, !.lastReset = t]

\* Allow, line 543: v.lastAccess = now
TouchVisitor(v, t) == [v EXCEPT !.lastAccess = t]

\* Allow, lines 543-547: v.lastAccess = now; v.count = 1; v.lastReset = now
ResetVisitor(v, t) == [v EXCEPT !.count = 1, !.lastReset = t, !.lastAccess = t]

\* mutant: the window is over as soon as its full length has passed
WindowElapsedGeq(v, t) == t - v.lastReset >= Window

\* now.Sub(v.lastReset) > rl.window
WindowElapsed(v, t) == t - v.lastReset > Window

\* mutant: strict comparison against the rate
WithinRateStrict(count, r) == count < r

\* v.count <= rl.rate
WithinRate(count, r) == count <= r

\* mutant: a lock that never waits
CanLockAlways(m) == TRUE

\* rl.mu.Lock() returns only when nobody holds the mutex
CanLock(m) == m = Free

\* mutant: every entry is idle, whenever it was last accessed
IdleAny(v, t) == t - v.lastAccess >= 0

\* mutant: an entry is idle as soon as its last access is 2 x window old
IdleGeq(v, t) == t - v.lastAccess >= Window * 2

\* now.Sub(v.lastAccess) > rl.window*2
Idle(v, t) == t - v.lastAccess > Window * 2

(***************************************************************************)
(* History: the fixed window that the calls completed so far define for an *)
(* identity, kept beside the limiter and never read by it.  A window opens *)
(* with the first call when none is open or when the open one started more *)
(* than Window ago; Reset forgets it; the idle sweep does not touch it.    *)
(* n counts the window's calls, ntrue those that returned true, and den    *)
(* tells whether the window it replaced had a call that returned false.    *)
(***************************************************************************)
NoWindow == [open |-> FALSE, start |-> 0, n |-> 0, ntrue |-> 0, den |-> FALSE]

OpensWindow(g, t) == ~g.open \/ t - g.start > Window

WindowAfter(g, t, res) ==
    IF OpensWindow(g, t)
    THEN [open |-> TRUE, start |-> t, n |-> 1, ntrue |-> IF res THEN 1 ELSE 0,
          den |-> g.open /\ g.n > g.ntrue]
    ELSE [g EXCEPT !.n = @ + 1, !.ntrue = @ + (IF res THEN 1 ELSE 0)]

NoRet == [valid |-> FALSE, existed |-> FALSE, res |-> FALSE, cnt |-> 0, start |-> 0,
          ord |-> 0, fresh |-> FALSE, gstart |-> 0, t |-> 0]

\* What a finished Allow call is remembered by: whether the entry existed, the
\* result, the entry v the call left (its count and lastReset), the time t the
\* call read, and, from the history g, the call's ordinal in its window,
\* whether it opened that window, and when that window started.
RetOf(existed, res, v, g, t) ==
    [valid |-> TRUE, existed |-> existed, res |-> res,
     cnt |-> v.count, start |-> v.lastReset,
     ord |-> WindowAfter(g, t, res).n, fresh |-> OpensWindow(g, t),
     gstart |-> WindowAfter(g, t, res).start, t |-> t]

NoIP == "-"

(***************************************************************************)
(* ratelimit.IPRateLimiter: Allow                                          *)
(***************************************************************************)
\* Allow, line 528: rl.mu.Lock()
AllowLock(p, ip) ==
    /\ lpc[p] = "idle"
    /\ CanLock(mu)
    /\ \/ ~Has(visitors, ip)
       \/ visitors[ip].count < MaxCount
       \/ WindowElapsed(visitors[ip], now)
    /\ mu' = p
    /\ lpc' = [lpc EXCEPT ![p] = "allow"]
    /\ lip' = [lip EXCEPT ![p] = ip]
    /\ UNCHANGED <<entries, queVars, pfiles, now, visitors, rate, lnow, lload, lret, gw, clsVars, stoVars, tp, ntf, gkVars>>

\* Allow, lines 531-541: the identity has no entry
AllowFirst(p) ==
    /\ lpc[p] = "allow"
    /\ ~Has(visitors, lip[p])
    /\ visitors' = MapPut(visitors, lip[p], NewVisitor(now))
    /\ lret' = [lret EXCEPT ![p] = RetOf(FALSE, TRUE, visitors'[lip[p]], gw[lip[p]], now)]
    /\ gw' = [gw EXCEPT ![lip[p]] = WindowAfter(@, now, TRUE)]
    /\ mu' = Free
    /\ lpc' = [lpc EXCEPT ![p] = "ret"]
    /\ UNCHANGED <<entries, queVars, pfiles, now, rate, lip, lnow, lload, clsVars, stoVars, tp, ntf, gkVars>>

\* Allow, lines 543-549: the entry's window is over
AllowReset(p) ==
    /\ lpc[p] = "allow"
    /\ Has(visitors, lip[p])
    /\ WindowElapsed(visitors[lip[p]], now)
    /\ visitors' = MapPut(visitors, lip[p], ResetVisitor(visitors[lip[p]], now))
    /\ lret' = [lret EXCEPT ![p] = RetOf(TRUE, TRUE, visitors'[lip[p]], gw[lip[p]], now)]
    /\ gw' = [gw EXCEPT ![lip[p]] = WindowAfter(@, now, TRUE)]
    /\ mu' = Free
    /\ lpc' = [lpc EXCEPT ![p] = "ret"]
    /\ UNCHANGED <<entries, queVars, pfiles, now, rate, lip, lnow, lload, clsVars, stoVars, tp, ntf, gkVars>>

\* Allow, lines 543-551: inside the window, v.lastAccess = now and v.count is read
AllowLoad(p) ==
    /\ lpc[p] = "allow"
    /\ Has(visitors, lip[p])
    /\ ~WindowElapsed(visitors[lip[p]], now)
    /\ visitors' = MapPut(visitors, lip[p], TouchVisitor(visitors[lip[p]], now))
    /\ lload' = [lload EXCEPT ![p] = visitors[lip[p]].count]
    /\ lnow' = [lnow EXCEPT ![p] = now]
    /\ lpc' = [lpc EXCEPT ![p] = "incr"]
    /\ UNCHANGED <<entries, queVars, pfiles, now, rate, mu, lip, lret, gw, clsVars, stoVars, tp, ntf, gkVars>>

\* Allow, lines 551-553: v.count is stored back, compared, and the mutex released.
\* v is a pointer: were the entry deleted meanwhile, the store would not reach the map.
AllowIncr(p) ==
    /\ lpc[p] = "incr"
    /\ visitors' = IF Has(visitors, lip[p])
                   THEN [visitors EXCEPT ![lip[p]].count = lload[p] + 1]
                   ELSE visitors
    /\ lret' = [lret EXCEPT ![p] =
                    RetOf(TRUE, WithinRate(lload[p] + 1, rate), visitors'[lip[p]],
                          gw[lip[p]], lnow[p])]
    /\ gw' = [gw EXCEPT ![lip[p]] =
                    WindowAfter(@, lnow[p], WithinRate(lload[p] + 1, rate))]
    /\ mu' = Free
    /\ lpc' = [lpc EXCEPT ![p] = "ret"]
    /\ UNCHANGED <<entries, queVars, pfiles, now, rate, lip, lnow, lload, clsVars, stoVars, tp, ntf, gkVars>>

\* the caller has the result; the goroutine is ready for its next call
AllowReturn(p) ==
    /\ lpc[p] = "ret"
    /\ lpc' = [lpc EXCEPT ![p] = "idle"]
    /\ lip' = [lip EXCEPT ![p] = NoIP]
    /\ lnow' = [lnow EXCEPT ![p] = 0]
    /\ lload' = [lload EXCEPT ![p] = 0]
    /\ lret' = [lret EXCEPT ![p] = NoRet]
    /\ UNCHANGED <<entries, queVars, pfiles, now, limVars, gw, clsVars, stoVars, tp, ntf, gkVars>>

(***************************************************************************)
(* ratelimit.IPRateLimiter: Reset                                          *)
(***************************************************************************)
\* Reset, line 557: rl.mu.Lock()
ResetLock(p, ip) ==
    /\ lpc[p] = "idle"
    /\ CanLock(mu)
    /\ mu' = p
    /\ lpc' = [lpc EXCEPT ![p] = "reset"]
    /\ lip' = [lip EXCEPT ![p] = ip]
    /\ UNCHANGED <<entries, queVars, pfiles, now, visitors, rate, lnow, lload, lret, gw, clsVars, stoVars, tp, ntf, gkVars>>

\* Reset, lines 558-560: delete(rl.visitors, ip) and the deferred Unlock
ResetDelete(p) ==
    /\ lpc[p] = "reset"
    /\ visitors' = MapDelete(visitors, lip[p])
    /\ gw' = [gw EXCEPT ![lip[p]] = NoWindow]
    /\ mu' = Free
    /\ lpc' = [lpc EXCEPT ![p] = "idle"]
    /\ lip' = [lip EXCEPT ![p] = NoIP]
    /\ UNCHANGED <<entries, queVars, pfiles, now, rate, lnow, lload, lret, clsVars, stoVars, tp, ntf, gkVars>>

(***************************************************************************)
(* ratelimit.IPRateLimiter: cleanupLoop / cleanup                          *)
(***************************************************************************)
\* the entries cleanup's loop keeps at time t
AfterCleanup(m, t) ==
    [i \in DOMAIN m |-> IF Has(m, i) /\ Idle(m[i], t) THEN NoVisitor ELSE m[i]]

\* cleanupLoop's ticker fires; cleanup, line 573: rl.mu.Lock()
CleanupLock ==
    /\ lpc[Sweeper] = "idle"
    /\ CanLock(mu)
    /\ mu' = Sweeper
    /\ lpc' = [lpc EXCEPT ![Sweeper] = "cleanup"]
    /\ UNCHANGED <<entries, queVars, pfiles, now, visitors, rate, lip, lnow, lload, lret, gw, clsVars, stoVars, tp, ntf, gkVars>>

\* cleanup, lines 576-581, and the deferred Unlock
CleanupSweep ==
    /\ lpc[Sweeper] = "cleanup"
    /\ visitors' = AfterCleanup(visitors, now)
    /\ mu' = Free
    /\ lpc' = [lpc EXCEPT ![Sweeper] = "idle"]
    /\ UNCHANGED <<entries, queVars, pfiles, now, rate, lip, lnow, lload, lret, gw, clsVars, stoVars, tp, ntf, gkVars>>

\* cleanup, lines 572-582, from Lock to the deferred Unlock in one step, for
\* the specifications that take Allow in one step too
Cleanup ==
    /\ lpc[Sweeper] = "idle"
    /\ CanLock(mu)
    /\ visitors' = AfterCleanup(visitors, now)
    /\ UNCHANGED <<entries, queVars, pfiles, now, rate, mu, lpc, lip, lnow, lload, lret, gw, clsVars, stoVars, tp, ntf, gkVars>>

(***************************************************************************)
(* The clock                                                               *)
(***************************************************************************)
\* A minute passes.  time.Now() is read once per call, under the mutex (lines
\* 531, 576): a tick while the mutex is held is the same tick right after the
\* unlock, and a tick while a caller is handing back its result is the same
\* tick right after it has, so only the latter are taken.
Tick ==
    /\ now < MaxTime
    /\ mu = Free
    /\ \A p \in Threads : lpc[p] # "ret"
    /\ now' = now + 1
    /\ UNCHANGED <<entries, queVars, pfiles, limVars, thrVars, gw, clsVars, stoVars, tp, ntf, gkVars>>

(***************************************************************************)
(* domain: the classifier applied to one score                             *)
(***************************************************************************)
NoOut == [done |-> FALSE, high |-> FALSE, sev |-> SeverityLow]

Classify ==
    /\ ~cout.done
    /\ cout' = [done |-> TRUE, high |-> IsHighRisk(cscore), sev |-> GetSeverity(cscore)]
    /\ UNCHANGED <<entries, queVars, pfiles, now, limVars, thrVars, gw, cscore, stoVars, tp, ntf, gkVars>>

(***************************************************************************)
(* ratelimit.IPRateLimiter.Allow as one step: the body of lines 528-553,   *)
(* which the mutex makes atomic.  ok is the result, m the map it leaves.   *)
(***************************************************************************)
Allow(m, ip, t, r) ==
    IF ~Has(m, ip)
    THEN [ok |-> TRUE, m |-> MapPut(m, ip, NewVisitor(t))]
    ELSE IF WindowElapsed(m[ip], t)
    THEN [ok |-> TRUE, m |-> MapPut(m, ip, ResetVisitor(m[ip], t))]
    ELSE [ok |-> WithinRate(m[ip].count + 1, r),
          m |-> MapPut(m, ip, [TouchVisitor(m[ip], t) EXCEPT !.count = @ + 1])]

(***************************************************************************)
(* database.IPDatabase: table ip_info                                      *)
(***************************************************************************)
\* no row for the address.  ts is the column timestamp and upd the column
\* updated_at; a domain.IPInfo, which has no field for updated_at, is a row
\* whose upd is 0
NoRow == [present |-> FALSE, score |-> 0, country |-> "", path |-> "", payload |-> "",
          blocked |-> FALSE, ts |-> 0, upd |-> 0]

\* a WHERE clause that still accepts a row of age exactly ttl
NotExpiredInclusive(row, t) == row.ts + TTL >= t

\* Get's WHERE clause: datetime(timestamp, '+ttl seconds') > datetime('now')
NotExpired(row, t) == row.ts + TTL > t

\* Get: the row of the address, if it has one that is not expired; the SELECT
\* reads every column but updated_at
DbGet(d, ip, t) ==
    IF d[ip].present /\ NotExpired(d[ip], t) THEN [d[ip] EXCEPT !.upd = 0] ELSE NoRow

\* Set: INSERT ... VALUES (..., datetime('now'), datetime('now')) ON
\* CONFLICT(address) DO UPDATE SET score, country, path, payload_path,
\* blocked_in_fw, updated_at = datetime('now') (the conflict branch leaves
\* timestamp).
\* A payload of "" is the NULL that an empty info.PayloadPath is stored as.
DbSet(d, ip, info, t) ==
    [d EXCEPT ![ip] =
        IF @.present
        THEN [@ EXCEPT !.score = info.score, !.country = info.country,
                       !.path = info.path, !.payload = info.payload,
                       !.blocked = info.blocked, !.upd = t]
        ELSE [present |-> TRUE, score |-> info.score, country |-> info.country,
              path |-> info.path, payload |-> info.payload,
              blocked |-> info.blocked, ts |-> t, upd |-> t]]

\* a MarkBlocked that inserts a blocked row when the address has none
DbMarkBlockedUpsert(d, ip, t) ==
    [d EXCEPT ![ip] = IF @.present THEN [@ EXCEPT !.blocked = TRUE, !.upd = t]
                      ELSE [NoRow EXCEPT !.present = TRUE, !.blocked = TRUE,
                                         !.ts = t, !.upd = t]]

\* MarkBlocked: UPDATE ip_info SET blocked_in_fw = 1, updated_at =
\* datetime('now') WHERE address = ?
DbMarkBlocked(d, ip, t) ==
    [d EXCEPT ![ip] = IF @.present THEN [@ EXCEPT !.blocked = TRUE, !.upd = t] ELSE @]

\* Delete: DELETE FROM ip_info WHERE address = ?
DbDelete(d, ip) == [d EXCEPT ![ip] = NoRow]

(***************************************************************************)
(* unifi.Client                                                            *)
(***************************************************************************)
\* a membership test that never finds the address
IpExistsInGroupNever(members, ip) == FALSE

\* ipExistsInGroup
IpExistsInGroup(members, ip) == \E i \in 1..Len(members) : members[i] = ip

\* updateFirewallGroup: group.Members = append(group.Members, ip), then PUT
UpdatedMembers(members, ip) == Append(members, ip)

(***************************************************************************)
(* gatekeeper.GateKeeper.handler                                           *)
(***************************************************************************)
\* the IPInfo a handler holds before it has one
NoInfo == [score |-> 0, country |-> "", path |-> "", payload |-> "", blocked |-> FALSE]

\* no Check call made yet for an address
NoSeen == [valid |-> FALSE, t |-> 0, score |-> 0, country |-> "", stored |-> FALSE]

\* mutant: Check sends every address to AbuseIPDB
RejectsLocallyNever(ip) == FALSE

\* Check, lines 57-59: a private or loopback address is refused without a request
RejectsLocally(ip) == IsPrivate(Octets(ip)) \/ IsLoopback(Octets(ip))

\* mutant: the error of Check is ignored and the score it returned is used
CheckResultNoFallback(cerr, answer) == [score |-> answer, country |-> "CC"]

\* getOrCreateIPInfo, lines 171-178: the score and country after Check
CheckResult(cerr, answer) ==
    IF cerr THEN [score |-> 0, country |-> "Unknown"]
            ELSE [score |-> answer, country |-> "CC"]

\* mutant: a record that could not be stored is returned with a score of 0
ResolvedInfoIfStored(info, setok) == IF setok THEN info ELSE [info EXCEPT !.score = 0]

\* getOrCreateIPInfo, lines 196-204: the error of db.Set is logged and the
\* ipInfo built from Check's answer is returned
ResolvedInfo(info, setok) == info

\* mutant: an exclusion list that is never consulted
IsExcludedNever(ip) == FALSE

\* isExcludedIP: slices.Contains(g.config.ExcludedIPs, ip)
IsExcludedIP(ip) == ip \in ExcludedIPs

\* DefaultRate of the ratelimit package
DefaultRate == 5

\* LoadConfiguration, lines 80-83: the ratelimit section as loaded
LoadedRateLimit(enabled, rpm) ==
    IF rpm = 0 THEN [enabled |-> TRUE, rpm |-> 5]
               ELSE [enabled |-> enabled, rpm |-> rpm]

\* NewGateKeeper, lines 67-76: the rate of the limiter that is constructed
LimiterRate(cfg) == IF cfg.enabled THEN cfg.rpm ELSE DefaultRate

\* a handler's requests are counted up to one past the rate
CountCap(r) == IF r >= MaxCount THEN r + 1 ELSE MaxCount

\* mutant: the limiter's answer is ignored
RejectsNever(allowed) == FALSE

\* handler, line 142: if !g.rateLimiter.Allow(ip)
Rejects(allowed) == ~allowed

\* mutant: the error of AddIPToFirewall is ignored
AddSucceededAlways(ok) == TRUE

\* blockIPInUniFi, line 239: err == nil
AddSucceeded(ok) == ok

\* mutant: blocking is attempted on the first controller only
MoreClientsNone(i, clients) == FALSE

\* blockIPInUniFi, line 238: the range loop has another controller
MoreClients(i, clients) == i < Len(clients)

\* mutant: every resolved record is tarpitted
TarpitsAlways(info) == TRUE

\* handler, line 155: if ipInfo.IsHighRisk()
Tarpits(info) == IsHighRisk(info.score)

\* A handler that has returned is looked at before anything else moves: its
\* goroutine is over, so what the others do next does not depend on it.
Observed == \A c \in Conns : hpc[c] # "done"

\* mutant: the server goes on serving a connection that a tarpit holds
AcceptsWhileHeld(c) == Observed /\ hpc[c] = "idle"

\* the server has a connection c on which no handler and no tarpit is running
Accepts(c) == Observed /\ hpc[c] = "idle" /\ hold[c] = "none"

\* the handler's locals and the request's history at the start of a request
StartRequest(c, ip, path) ==
    /\ hip' = [hip EXCEPT ![c] = ip]
    /\ hold' = hold
    /\ hinfo' = [hinfo EXCEPT ![c] = [NoInfo EXCEPT !.path = path]]
    /\ hidx' = [hidx EXCEPT ![c] = 0]
    /\ hsnap' = [hsnap EXCEPT ![c] = <<>>]
    /\ hhit' = [hhit EXCEPT ![c] = FALSE]
    /\ hhj' = [hhj EXCEPT ![c] = "none"]
    /\ tried' = [tried EXCEPT ![c] = {}]
    /\ okc' = [okc EXCEPT ![c] = {}]
    /\ failc' = [failc EXCEPT ![c] = {}]

\* handler, lines 134-140: the address is excluded: 200 and return
HandleExcluded(c, ip, path) ==
    /\ Accepts(c)
    /\ IsExcludedIP(ip)
    /\ StartRequest(c, ip, path)
    /\ resp' = [resp EXCEPT ![c] = "200"]
    /\ eff' = [eff EXCEPT ![c] = {}]
    /\ hord' = [hord EXCEPT ![c] = 0]
    /\ hpc' = [hpc EXCEPT ![c] = "done"]
    /\ UNCHANGED <<entries, queVars, pfiles, now, limVars, thrVars, gw, clsVars, stoVars, tp, ntf, extVars, fwok, seen>>

\* handler, lines 134-146: the limiter denies the request: 429 and return
HandleRateLimited(c, ip, path) ==
    /\ Accepts(c)
    /\ ~IsExcludedIP(ip)
    /\ CanLock(mu)
    /\ visitors[ip].count < CountCap(rate) \/ WindowElapsed(visitors[ip], now)
    /\ Rejects(Allow(visitors, ip, now, rate).ok)
    /\ visitors' = Allow(visitors, ip, now, rate).m
    /\ gw' = [gw EXCEPT ![ip] = WindowAfter(@, now, Allow(visitors, ip, now, rate).ok)]
    /\ StartRequest(c, ip, path)
    /\ resp' = [resp EXCEPT ![c] = "429"]
    /\ eff' = [eff EXCEPT ![c] = {"allow"}]
    /\ hord' = [hord EXCEPT ![c] = gw'[ip].n]
    /\ hpc' = [hpc EXCEPT ![c] = "done"]
    /\ UNCHANGED <<entries, queVars, pfiles, now, rate, mu, thrVars, clsVars, stoVars, tp, ntf, extVars, fwok, seen>>

\* handler, lines 134-149: the limiter allows the request
HandleAllowed(c, ip, path) ==
    /\ Accepts(c)
    /\ ~IsExcludedIP(ip)
    /\ CanLock(mu)
    /\ visitors[ip].count < CountCap(rate) \/ WindowElapsed(visitors[ip], now)
    /\ ~Rejects(Allow(visitors, ip, now, rate).ok)
    /\ visitors' = Allow(visitors, ip, now, rate).m
    /\ gw' = [gw EXCEPT ![ip] = WindowAfter(@, now, Allow(visitors, ip, now, rate).ok)]
    /\ StartRequest(c, ip, path)
    /\ resp' = [resp EXCEPT ![c] = "none"]
    /\ eff' = [eff EXCEPT ![c] = {"allow"}]
    /\ hord' = [hord EXCEPT ![c] = gw'[ip].n]
    /\ hpc' = [hpc EXCEPT ![c] = "get"]
    /\ UNCHANGED <<entries, queVars, pfiles, now, rate, mu, thrVars, clsVars, stoVars, tp, ntf, extVars, fwok, seen>>

(***************************************************************************)
(* gatekeeper.GateKeeper.getOrCreateIPInfo                                 *)
(***************************************************************************)
\* lines 165-169: db.Get finds a row that is not expired
GetHit(c) ==
    /\ Observed
    /\ hpc[c] = "get"
    /\ DbGet(db, hip[c], now).present
    /\ hinfo' = [hinfo EXCEPT ![c] =
                    [score |-> DbGet(db, hip[c], now).score,
                     country |-> DbGet(db, hip[c], now).country,
                     path |-> @.path,
                     payload |-> DbGet(db, hip[c], now).payload,
                     blocked |-> DbGet(db, hip[c], now).blocked]]
    /\ hhit' = [hhit EXCEPT ![c] = TRUE]
    /\ eff' = [eff EXCEPT ![c] = @ \cup {"get"}]
    /\ hpc' = [hpc EXCEPT ![c] = "respond"]
    /\ UNCHANGED <<entries, queVars, pfiles, now, limVars, thrVars, gw, clsVars, stoVars, tp, ntf, extVars,
                   hip, hidx, hsnap, resp, hold, hord, hhj, tried, okc, failc, fwok>>

\* lines 165-171: db.Get finds nothing (no row, an expired row, or, with
\* dberr, a query error, which Get reports as absent); Check is called
GetMiss(c, dberr) ==
    /\ Observed
    /\ hpc[c] = "get"
    /\ ~DbGet(db, hip[c], now).present \/ dberr
    /\ eff' = [eff EXCEPT ![c] =
                    @ \cup {"get", "check"}
                      \cup (IF DbGet(db, hip[c], now).present THEN {"geterr"} ELSE {})]
    /\ hpc' = [hpc EXCEPT ![c] = "check"]
    /\ UNCHANGED <<entries, queVars, pfiles, now, limVars, thrVars, gw, clsVars, stoVars, tp, ntf, extVars,
                   hip, hinfo, hidx, hsnap, resp, hold, hhit, hord, hhj, tried, okc,
                   failc, fwok, seen>>

\* config.Payload.MaxSize, in bytes
PayloadMaxSize == 2

\* the lengths of the request bodies that are followed
BodySizes == 0..PayloadMaxSize + 1

\* savePayload, line 225: the file's name, made of the address (and of the
\* time and the body's hash, which are not followed)
PayloadName(ip) == IF ip = "a" THEN "payloads/a.bin" ELSE "payloads/b.bin"

\* savePayload, line 213: io.LimitReader(r.Body, MaxSize) hands over at most MaxSize bytes
LimitedBody(size) == IF size <= PayloadMaxSize THEN size ELSE PayloadMaxSize

\* savePayload, lines 207-235: MkdirAll succeeds iff mk, ReadAll iff rd,
\* WriteFile iff wr; size is the length of the request body
SavePayload(ip, mk, rd, size, wr) ==
    IF ~mk \/ ~rd THEN [NoCapture EXCEPT !.called = TRUE]
    ELSE IF LimitedBody(size) = 0 THEN [NoCapture EXCEPT !.called = TRUE]
    ELSE IF ~wr THEN [NoCapture EXCEPT !.called = TRUE]
    ELSE [called |-> TRUE, ret |-> PayloadName(ip),
          wrote |-> {[name |-> PayloadName(ip), size |-> LimitedBody(size)]}]

\* mutant: the record refers to the file whether or not it was written
PayloadRefAlways(cap) == IF cap.called THEN "payloads/a.bin" ELSE ""

\* getOrCreateIPInfo, lines 189-194: ipInfo.PayloadPath after savePayload
PayloadRef(cap) == IF cap.called /\ cap.ret # "" THEN cap.ret ELSE ""

\* lines 171-204: Check returns (an error iff cerr, else the score answer;
\* for a private or loopback address the error of its line 58, otherwise
\* after its HTTP request),
\* the IPInfo is built, savePayload goes as cap tells (NoCapture when
\* config.Payload.Enabled is false) and the IPInfo is handed to
\* db.Set (which succeeds iff setok); a
\* high-risk score with at least one controller goes on to blockIPInUniFi
CheckReturns(c, cerr, answer, cap, setok) ==
    /\ Observed
    /\ hpc[c] = "check"
    /\ RejectsLocally(hip[c]) => cerr
    /\ LET info == [score |-> CheckResult(cerr, answer).score,
                    country |-> CheckResult(cerr, answer).country,
                    path |-> hinfo[c].path, payload |-> PayloadRef(cap), blocked |-> FALSE]
       IN /\ hinfo' = [hinfo EXCEPT ![c] = ResolvedInfo(info, setok)]
          /\ db' = IF setok THEN DbSet(db, hip[c], info, now) ELSE db
          /\ IF IsHighRisk(info.score) /\ Len(unifiClients) > 0
             THEN /\ hpc' = [hpc EXCEPT ![c] = "block"]
                  /\ hidx' = [hidx EXCEPT ![c] = 1]
             ELSE /\ hpc' = [hpc EXCEPT ![c] = "respond"]
                  /\ hidx' = hidx
    /\ pfiles' = pfiles \cup cap.wrote
    /\ eff' = [eff EXCEPT ![c] =
                    @ \cup {"set"} \cup (IF cerr THEN {"checkerr"} ELSE {})
                      \cup (IF setok THEN {} ELSE {"seterr"})
                      \cup (IF cap.called /\ cap.ret = "" THEN {"caperr"} ELSE {})
                      \cup (IF RejectsLocally(hip[c]) THEN {} ELSE {"http"})]
    /\ UNCHANGED <<entries, queVars, now, limVars, thrVars, gw, clsVars, stoVars, tp, ntf, fw, unifiClients,
                   hip, hsnap, resp, hold, hhit, hord, hhj, tried, okc, failc, fwok>>

(***************************************************************************)
(* gatekeeper.GateKeeper.blockIPInUniFi and unifi.Client.AddIPToFirewall   *)
(***************************************************************************)
\* blockIPInUniFi: on to the next controller, or back to the handler
NextClient(c) ==
    IF MoreClients(hidx[c], unifiClients)
    THEN /\ hidx' = [hidx EXCEPT ![c] = @ + 1]
         /\ hpc' = [hpc EXCEPT ![c] = "block"]
    ELSE /\ hidx' = hidx
         /\ hpc' = [hpc EXCEPT ![c] = "respond"]

\* blockIPInUniFi, lines 239-247: AddIPToFirewall has returned on controller
\* k, with nil iff ok (why tells which call failed); db.MarkBlocked succeeds
\* iff markok
AddReturned(c, k, ok, markok, why) ==
    /\ okc' = [okc EXCEPT ![c] = IF ok THEN @ \cup {k} ELSE @]
    /\ failc' = [failc EXCEPT ![c] = IF ok THEN @ ELSE @ \cup {k}]
    /\ fwok' = IF ok THEN fwok \cup {hip[c]} ELSE fwok
    /\ IF AddSucceeded(ok)
       THEN /\ hinfo' = [hinfo EXCEPT ![c].blocked = TRUE]
            /\ db' = IF markok THEN DbMarkBlocked(db, hip[c], now) ELSE db
            /\ eff' = [eff EXCEPT ![c] =
                            @ \cup {"fw", "mark"} \cup why
                              \cup (IF markok THEN {} ELSE {"markerr"})]
       ELSE /\ hinfo' = hinfo
            /\ db' = db
            /\ eff' = [eff EXCEPT ![c] = @ \cup {"fw"} \cup why]
    /\ NextClient(c)

\* AddIPToFirewall, lines 102-110: getFirewallGroups fails, or the group is missing
FwFetchFails(c, markok) ==
    /\ Observed
    /\ hpc[c] = "block"
    /\ tried' = [tried EXCEPT ![c] = @ \cup {unifiClients[hidx[c]]}]
    /\ AddReturned(c, unifiClients[hidx[c]], FALSE, markok, {"fetcherr"})
    /\ UNCHANGED <<entries, queVars, pfiles, now, limVars, thrVars, gw, clsVars, stoVars, tp, ntf, fw, unifiClients,
                   hip, hsnap, resp, hold, hhit, hord, hhj, seen>>

\* AddIPToFirewall, lines 102-115: the address is already a member: return nil
FwAlreadyMember(c, markok) ==
    /\ Observed
    /\ hpc[c] = "block"
    /\ IpExistsInGroup(fw[unifiClients[hidx[c]]], hip[c])
    /\ tried' = [tried EXCEPT ![c] = @ \cup {unifiClients[hidx[c]]}]
    /\ AddReturned(c, unifiClients[hidx[c]], TRUE, markok, {})
    /\ UNCHANGED <<entries, queVars, pfiles, now, limVars, thrVars, gw, clsVars, stoVars, tp, ntf, fw, unifiClients,
                   hip, hsnap, resp, hold, hhit, hord, hhj, seen>>

\* AddIPToFirewall, lines 102-117: the group is fetched, the address is not in it
FwFetched(c) ==
    /\ Observed
    /\ hpc[c] = "block"
    /\ ~IpExistsInGroup(fw[unifiClients[hidx[c]]], hip[c])
    /\ tried' = [tried EXCEPT ![c] = @ \cup {unifiClients[hidx[c]]}]
    /\ hsnap' = [hsnap EXCEPT ![c] = fw[unifiClients[hidx[c]]]]
    /\ eff' = [eff EXCEPT ![c] = @ \cup {"fw"}]
    /\ hpc' = [hpc EXCEPT ![c] = "put"]
    /\ UNCHANGED <<entries, queVars, pfiles, now, limVars, thrVars, gw, clsVars, stoVars, tp, ntf, extVars,
                   hip, hinfo, hidx, resp, hold, hhit, hord, hhj, okc, failc, fwok, seen>>

\* updateFirewallGroup, lines 173-194: the PUT of the fetched members plus
\* the address takes effect on the controller; the caller is still waiting
\* in httpClient.Do for the response
FwPutApplied(c) ==
    /\ Observed
    /\ hpc[c] = "put"
    /\ fw' = [fw EXCEPT ![unifiClients[hidx[c]]] = UpdatedMembers(hsnap[c], hip[c])]
    /\ hpc' = [hpc EXCEPT ![c] = "putwait"]
    /\ UNCHANGED <<entries, queVars, pfiles, now, limVars, thrVars, gw, clsVars, stoVars, tp, ntf, db, unifiClients,
                   hip, hinfo, hidx, hsnap, resp, hold, histVars>>

\* updateFirewallGroup, lines 194-205, and blockIPInUniFi, lines 242-243:
\* the response of the PUT arrives with status 200, AddIPToFirewall returns
\* nil and the caller marks the request and the row
FwPutOk(c, markok) ==
    /\ Observed
    /\ hpc[c] = "putwait"
    /\ hsnap' = [hsnap EXCEPT ![c] = <<>>]
    /\ AddReturned(c, unifiClients[hidx[c]], TRUE, markok, {"put"})
    /\ UNCHANGED <<entries, queVars, pfiles, now, limVars, thrVars, gw, clsVars, stoVars, tp, ntf, fw, unifiClients,
                   hip, resp, hold, hhit, hord, hhj, tried, seen>>

\* updateFirewallGroup, lines 194-203: httpClient.Do returns an error or the
\* status is not 200, whether or not the controller has applied the PUT
FwPutFails(c, markok) ==
    /\ Observed
    /\ hpc[c] \in {"put", "putwait"}
    /\ hsnap' = [hsnap EXCEPT ![c] = <<>>]
    /\ AddReturned(c, unifiClients[hidx[c]], FALSE, markok, {"puterr"})
    /\ UNCHANGED <<entries, queVars, pfiles, now, limVars, thrVars, gw, clsVars, stoVars, tp, ntf, fw, unifiClients,
                   hip, resp, hold, hhit, hord, hhj, tried, seen>>

(***************************************************************************)
(* gatekeeper.GateKeeper.handler, lines 153-161: notify, then tarpit or    *)
(* dropConnection.  hj is how w.(http.Hijacker) and hj.Hijack() go.        *)
(***************************************************************************)
HijackOutcomes == {"ok", "unsupported", "error"}

\* tarpit, lines 252-265
TarpitResponse(hj) ==
    IF hj = "ok" THEN "tarpit" ELSE IF hj = "unsupported" THEN "503" ELSE "none"

\* dropConnection, lines 285-299
DropResponse(hj) == IF hj = "ok" THEN "closed" ELSE "403"

\* handler, line 153: g.notifier.Notify(ipInfo) starts the deliveries and
\* returns; the handler has not answered yet
HandlerNotifies(c) ==
    /\ Observed
    /\ hpc[c] = "respond"
    /\ eff' = [eff EXCEPT ![c] = @ \cup {"notify"}]
    /\ hpc' = [hpc EXCEPT ![c] = "answer"]
    /\ UNCHANGED <<entries, queVars, pfiles, now, limVars, thrVars, gw, clsVars, stoVars, tp, extVars,
                   hip, hinfo, hidx, hsnap, resp, hold, hhit, hord, hhj, tried, okc, failc, fwok, seen>>

\* handler, lines 155-161: the tarpit or the drop, by the record's score
Respond(c, hj) ==
    /\ Observed
    /\ hpc[c] = "answer"
    /\ hhj' = [hhj EXCEPT ![c] = hj]
    /\ IF Tarpits(hinfo[c])
       THEN /\ resp' = [resp EXCEPT ![c] = TarpitResponse(hj)]
            /\ hold' = [hold EXCEPT ![c] = IF hj = "ok" THEN "holding" ELSE @]
            /\ eff' = [eff EXCEPT ![c] =
                            @ \cup {"tarpit"} \cup (IF hj = "ok" THEN {"hold"} ELSE {})]
       ELSE /\ resp' = [resp EXCEPT ![c] = DropResponse(hj)]
            /\ hold' = hold
            /\ eff' = [eff EXCEPT ![c] = @ \cup {"drop"}]
    /\ hpc' = [hpc EXCEPT ![c] = "done"]
    /\ UNCHANGED <<entries, queVars, pfiles, now, limVars, thrVars, gw, clsVars, stoVars, extVars,
                   hip, hinfo, hidx, hsnap, hhit, hord, tried, okc, failc, fwok, seen>>

\* tarpit, lines 265-281: the hold goroutine returns on a failed write or
\* on the timeout, and its deferred conn.Close() runs
TarpitEnds(c) ==
    /\ Observed
    /\ hold[c] = "holding"
    /\ hold' = [hold EXCEPT ![c] = "none"]
    /\ UNCHANGED <<entries, queVars, pfiles, now, limVars, thrVars, gw, clsVars, stoVars, tp, ntf, extVars,
                   hpc, hip, hinfo, hidx, hsnap, resp, histVars>>

(***************************************************************************)
(* gatekeeper.GateKeeper.tarpit, lines 265-281: the hold goroutine.  Its    *)
(* ticker has a tick waiting every TarpitTickInterval, its timeout channel  *)
(* is ready from TarpitDuration on; the select takes either when both are   *)
(* ready.  The goroutine takes what is ready before the clock moves on.     *)
(***************************************************************************)
\* TarpitTickInterval, in clock ticks
TarpitTickInterval == 1
\* TarpitDuration, in clock ticks
TarpitDuration == 3
\* the server takes requests up to this instant
TarpitMaxStart == Window

\* no hold has run on the connection
NoHold == [start |-> 0, pend |-> FALSE, bytes |-> 0, last |-> 0, failed |-> FALSE]

\* mutant: a timeout channel that never becomes ready
HoldExpiredNever(start, t) == FALSE

\* timeout := time.After(TarpitDuration) is ready
HoldExpired(start, t) == t - start >= TarpitDuration

\* ticker := time.NewTicker(TarpitTickInterval) delivers a tick at t
TickerFires(start, t) == t > start /\ (t - start) % TarpitTickInterval = 0

\* tarpit, lines 259-270: the goroutine is started when the handler's
\* response is the hold
HoldStarts(c) ==
    tp' = IF hold'[c] = "holding" /\ hold[c] # "holding"
          THEN [tp EXCEPT ![c] = [NoHold EXCEPT !.start = now]]
          ELSE tp

\* case <-ticker.C: conn.Write([]byte{0}) succeeds (wrote), or fails and the
\* goroutine returns, closing the connection
HoldWrite(c, wrote) ==
    /\ hold[c] = "holding"
    /\ tp[c].pend
    /\ IF wrote
       THEN /\ tp' = [tp EXCEPT ![c] = [@ EXCEPT !.pend = FALSE, !.bytes = @ + 1,
                                                !.last = now]]
            /\ hold' = hold
       ELSE /\ tp' = [tp EXCEPT ![c] = [@ EXCEPT !.pend = FALSE, !.failed = TRUE]]
            /\ hold' = [hold EXCEPT ![c] = "none"]
    /\ UNCHANGED <<entries, queVars, pfiles, now, limVars, thrVars, gw, clsVars, stoVars, ntf, extVars,
                   hpc, hip, hinfo, hidx, hsnap, resp, histVars>>

\* case <-timeout: the goroutine returns, closing the connection
HoldTimeout(c) ==
    /\ hold[c] = "holding"
    /\ HoldExpired(tp[c].start, now)
    /\ tp' = [tp EXCEPT ![c] = [@ EXCEPT !.pend = FALSE]]
    /\ hold' = [hold EXCEPT ![c] = "none"]
    /\ UNCHANGED <<entries, queVars, pfiles, now, limVars, thrVars, gw, clsVars, stoVars, ntf, extVars,
                   hpc, hip, hinfo, hidx, hsnap, resp, histVars>>

\* the clock beside the holds: it moves on when every hold has taken what
\* was ready, and stops when no request is taken any more and no hold runs
TarpitClock ==
    /\ now < TarpitMaxStart \/ \E c \in Conns : hold[c] = "holding"
    /\ \A c \in Conns :
          hold[c] = "holding" => (~tp[c].pend /\ ~HoldExpired(tp[c].start, now))
    /\ now' = now + 1
    /\ tp' = [c \in Conns |->
                IF hold[c] = "holding" /\ TickerFires(tp[c].start, now + 1)
                THEN [tp[c] EXCEPT !.pend = TRUE] ELSE tp[c]]
    /\ UNCHANGED <<entries, queVars, pfiles, limVars, thrVars, gw, clsVars, stoVars, ntf, gkVars>>

(***************************************************************************)
(* notification.MultiNotifier.Notify: a goroutine per notifier, each        *)
(* posting to its own destination.  A goroutine whose post never returns    *)
(* stays among the sending ones.                                            *)
(***************************************************************************)
\* m.notifiers: one TelegramNotifier per configured destination
NotifyDests == {"n1", "n2"}

NoDeliveries == [pending |-> 0, sent |-> 0, failed |-> 0]

\* mutant: the notifiers after one that has failed are skipped
NotifyTargetsUntilFailure(n) == IF n["n1"].failed > 0 THEN {"n1"} ELSE NotifyDests

\* Notify, line 136: for _, notifier := range m.notifiers
NotifyTargets(n) == NotifyDests

\* Notify, lines 136-142: go func(n Notifier) for every notifier
MultiNotify ==
    ntf' = [d \in NotifyDests |->
                IF d \in NotifyTargets(ntf) THEN [ntf[d] EXCEPT !.pending = @ + 1]
                                            ELSE ntf[d]]

\* a notification goroutine's n.Notify(info) returns: nil (sent), or an
\* error, which is logged
Delivered(d, sent) ==
    /\ ntf[d].pending > 0
    /\ ntf' = [ntf EXCEPT ![d] =
                  IF sent THEN [@ EXCEPT !.pending = @ - 1, !.sent = @ + 1]
                          ELSE [@ EXCEPT !.pending = @ - 1, !.failed = @ + 1]]
    /\ UNCHANGED <<entries, queVars, pfiles, now, limVars, thrVars, gw, clsVars, stoVars, tp, gkVars>>

\* the handler has returned; its goroutine ends
Finish(c) ==
    /\ hpc[c] = "done"
    /\ hpc' = [hpc EXCEPT ![c] = "idle"]
    /\ StartRequest(c, NoIP, "")
    /\ resp' = [resp EXCEPT ![c] = "none"]
    /\ eff' = [eff EXCEPT ![c] = {}]
    /\ hord' = [hord EXCEPT ![c] = 0]
    /\ UNCHANGED <<entries, queVars, pfiles, now, limVars, thrVars, gw, clsVars, stoVars, tp, ntf, extVars, fwok, seen>>

(***************************************************************************)
(* database.IPDatabase called directly: Get, Set, MarkBlocked and Delete    *)
(* as a caller of the package sees them, and the dashboard's GetStats,      *)
(* whose queries are separate statements that other goroutines' statements  *)
(* can come between.  sop remembers the last call and its answer.           *)
(***************************************************************************)
\* DefaultCleanupInterval, in clock ticks
CleanupInterval == 1
\* the store's clock stops here: a row can be older than ttl + cleanup interval
StoreMaxTime == TTL + CleanupInterval + 1

\* the *domain.IPInfo values handed to Set: one with a low score, no payload
\* and the flag unset, one with a high score, a payload and the flag set, on
\* different request targets
StoreInfos ==
    {[score |-> 0, country |-> "FR", path |-> "/", payload |-> "", blocked |-> FALSE],
     [score |-> ScoreHigh, country |-> "FR", path |-> "/x", payload |-> "p1", blocked |-> TRUE]}
\* the IPInfo getOrCreateIPInfo hands to Set: BlockedInFW false, no payload
FreshInfos == [score : {ScoreHigh}, country : {"FR"}, path : {"/"},
               payload : {""}, blocked : {FALSE}]

NoOp == [op |-> "none", ip |-> NoIP, arg |-> NoInfo, out |-> NoRow, err |-> FALSE]
NoStats == [total |-> 0, blocked |-> 0, active |-> 0]

\* SELECT COUNT(*) FROM ip_info
CountTotal(d) == Cardinality({i \in DOMAIN d : d[i].present})
\* SELECT COUNT(*) FROM ip_info WHERE blocked_in_fw = 1
CountBlocked(d) == Cardinality({i \in DOMAIN d : d[i].present /\ d[i].blocked})
\* SELECT COUNT(*) FROM ip_info WHERE datetime(timestamp, '+ttl seconds') > datetime('now')
CountActive(d, t) == Cardinality({i \in DOMAIN d : d[i].present /\ NotExpired(d[i], t)})

\* db.Get(ip): the row, true; or nil, false when there is none or the query fails
StoreGet(ip, dberr) ==
    /\ sop' = [op |-> "get", ip |-> ip, arg |-> NoInfo,
               out |-> IF dberr THEN NoRow ELSE DbGet(db, ip, now), err |-> dberr]
    /\ UNCHANGED <<entries, queVars, pfiles, now, limVars, thrVars, gw, clsVars, tp, ntf, gkVars, spc, stats>>

\* db.Set(info): the upsert, or an error and no change
StoreSet(ip, info, dberr) ==
    /\ db' = IF dberr THEN db ELSE DbSet(db, ip, info, now)
    /\ sop' = [op |-> "set", ip |-> ip, arg |-> info, out |-> NoRow, err |-> dberr]
    /\ UNCHANGED <<entries, queVars, pfiles, now, limVars, thrVars, gw, clsVars, tp, ntf, fw, unifiClients,
                   hdlVars, histVars, spc, stats>>

\* db.MarkBlocked(ip): the update, or an error and no change
StoreMarkBlocked(ip, dberr) ==
    /\ db' = IF dberr THEN db ELSE DbMarkBlocked(db, ip, now)
    /\ sop' = [op |-> "mark", ip |-> ip, arg |-> NoInfo, out |-> NoRow, err |-> dberr]
    /\ UNCHANGED <<entries, queVars, pfiles, now, limVars, thrVars, gw, clsVars, tp, ntf, fw, unifiClients,
                   hdlVars, histVars, spc, stats>>

\* db.Delete(ip): the row of the address is deleted, whatever its age, or an
\* error and no change
StoreDelete(ip, dberr) ==
    /\ db' = IF dberr THEN db ELSE DbDelete(db, ip)
    /\ sop' = [op |-> "delete", ip |-> ip, arg |-> NoInfo, out |-> NoRow, err |-> dberr]
    /\ UNCHANGED <<entries, queVars, pfiles, now, limVars, thrVars, gw, clsVars, tp, ntf, fw, unifiClients,
                   hdlVars, histVars, spc, stats>>

\* the store's clock
StoreTick ==
    /\ now < StoreMaxTime
    /\ now' = now + 1
    /\ sop' = NoOp
    /\ UNCHANGED <<entries, queVars, pfiles, limVars, thrVars, gw, clsVars, tp, ntf, gkVars, spc, stats>>

\* GetStats, first query: TotalEntries
StatsTotal ==
    /\ spc = "idle"
    /\ stats' = [NoStats EXCEPT !.total = CountTotal(db)]
    /\ spc' = "blocked"
    /\ sop' = NoOp
    /\ UNCHANGED <<entries, queVars, pfiles, now, limVars, thrVars, gw, clsVars, tp, ntf, gkVars>>

\* GetStats, second query: BlockedEntries
StatsBlocked ==
    /\ spc = "blocked"
    /\ stats' = [stats EXCEPT !.blocked = CountBlocked(db)]
    /\ spc' = "active"
    /\ sop' = NoOp
    /\ UNCHANGED <<entries, queVars, pfiles, now, limVars, thrVars, gw, clsVars, tp, ntf, gkVars>>

\* GetStats, third query: ActiveEntries; the size query follows and stats is returned
StatsActive ==
    /\ spc = "active"
    /\ stats' = [stats EXCEPT !.active = CountActive(db, now)]
    /\ spc' = "done"
    /\ sop' = NoOp
    /\ UNCHANGED <<entries, queVars, pfiles, now, limVars, thrVars, gw, clsVars, tp, ntf, gkVars>>

\* GetStats: a query fails and the error is returned
StatsFails ==
    /\ spc \in {"idle", "blocked", "active"}
    /\ stats' = NoStats
    /\ spc' = "idle"
    /\ sop' = NoOp
    /\ UNCHANGED <<entries, queVars, pfiles, now, limVars, thrVars, gw, clsVars, tp, ntf, gkVars>>

\* the dashboard has served the Stats
StatsServed ==
    /\ spc = "done"
    /\ stats' = NoStats
    /\ spc' = "idle"
    /\ sop' = NoOp
    /\ UNCHANGED <<entries, queVars, pfiles, now, limVars, thrVars, gw, clsVars, tp, ntf, gkVars>>

(***************************************************************************)
(* cache.IPCache, the in-memory store, called with the calls the            *)
(* IPDatabase gets: both are handed the same Set, MarkBlocked, Delete and   *)
(* Get, and the cache's cleanupLoop runs beside them.                       *)
(***************************************************************************)
\* Get, lines 675-689: the entry, unless time.Since(entry.Timestamp) > c.ttl
CacheGet(e, ip, t) == IF e[ip].present /\ ~(t - e[ip].ts > TTL) THEN e[ip] ELSE NoRow

\* Set, lines 692-698: info.Timestamp = time.Now(); c.entries[info.Address] = info
\* (an entry is a domain.IPInfo: upd stays 0)
CacheSet(e, ip, info, t) ==
    [e EXCEPT ![ip] = [present |-> TRUE, score |-> info.score, country |-> info.country,
                       path |-> info.path, payload |-> info.payload,
                       blocked |-> info.blocked, ts |-> t, upd |-> 0]]

\* MarkBlocked, lines 701-708
CacheMarkBlocked(e, ip) ==
    [e EXCEPT ![ip] = IF @.present THEN [@ EXCEPT !.blocked = TRUE] ELSE @]

\* Delete, lines 711-716: delete(c.entries, ip)
CacheDelete(e, ip) == [e EXCEPT ![ip] = NoRow]

\* cleanup, lines 727-737: the entries older than the ttl are deleted
CacheCleanup(e, t) ==
    [i \in DOMAIN e |-> IF e[i].present /\ t - e[i].ts > TTL THEN NoRow ELSE e[i]]

\* the *domain.IPInfo values handed to both stores
PairInfos == [score : {0, ScoreHigh}, country : {"FR"}, path : {"/"},
              payload : {""}, blocked : BOOLEAN]

\* Set(info) on the database and on the cache
BothSet(ip, info) ==
    /\ db' = DbSet(db, ip, info, now)
    /\ entries' = CacheSet(entries, ip, info, now)
    /\ sop' = [op |-> "set", ip |-> ip, arg |-> info, out |-> NoRow, err |-> FALSE]
    /\ UNCHANGED <<now, limVars, thrVars, gw, clsVars, tp, ntf, pfiles, queVars, fw,
                   unifiClients, hdlVars, histVars, spc, stats>>

\* MarkBlocked(ip) on the database and on the cache
BothMarkBlocked(ip) ==
    /\ db' = DbMarkBlocked(db, ip, now)
    /\ entries' = CacheMarkBlocked(entries, ip)
    /\ sop' = [op |-> "mark", ip |-> ip, arg |-> NoInfo, out |-> NoRow, err |-> FALSE]
    /\ UNCHANGED <<now, limVars, thrVars, gw, clsVars, tp, ntf, pfiles, queVars, fw,
                   unifiClients, hdlVars, histVars, spc, stats>>

\* Get(ip) on the database and on the cache; sop keeps the database's answer
BothGet(ip) ==
    /\ sop' = [op |-> "get", ip |-> ip, arg |-> NoInfo, out |-> DbGet(db, ip, now),
               err |-> FALSE]
    /\ UNCHANGED <<now, limVars, thrVars, gw, clsVars, tp, ntf, pfiles, entries, queVars,
                   gkVars, spc, stats>>

\* Delete(ip) on the database and on the cache
BothDelete(ip) ==
    /\ db' = DbDelete(db, ip)
    /\ entries' = CacheDelete(entries, ip)
    /\ sop' = [op |-> "delete", ip |-> ip, arg |-> NoInfo, out |-> NoRow, err |-> FALSE]
    /\ UNCHANGED <<now, limVars, thrVars, gw, clsVars, tp, ntf, pfiles, queVars, fw,
                   unifiClients, hdlVars, histVars, spc, stats>>

\* the cache's cleanupLoop: its ticker fires and cleanup runs
CacheSweep ==
    /\ entries' = CacheCleanup(entries, now)
    /\ sop' = NoOp
    /\ UNCHANGED <<now, limVars, thrVars, gw, clsVars, tp, ntf, pfiles, queVars, gkVars,
                   spc, stats>>

(***************************************************************************)
(* queue.IPQueue and its callers.  A caller takes the mutex of a key with   *)
(* Get, locks it, unlocks it, and may remove the key; q.mutex makes Get     *)
(* and Remove one step each.                                                *)
(***************************************************************************)
\* Remove, line 35: delete(q.ipScan, key)
Removed(m, key) == [m EXCEPT ![key] = 0]

\* Get, lines 17-29: the key's mutex, created when the key has none
QueueGet(p, key) ==
    /\ qpc[p] = "idle"
    /\ ipScan[key] # 0 \/ allocated < MaxMutexes
    /\ IF ipScan[key] # 0
       THEN /\ qref' = [qref EXCEPT ![p] = ipScan[key]]
            /\ UNCHANGED <<ipScan, allocated>>
       ELSE /\ allocated' = allocated + 1
            /\ ipScan' = [ipScan EXCEPT ![key] = allocated + 1]
            /\ qref' = [qref EXCEPT ![p] = allocated + 1]
    /\ qkey' = [qkey EXCEPT ![p] = key]
    /\ qpc' = [qpc EXCEPT ![p] = "got"]
    /\ UNCHANGED <<now, limVars, thrVars, gw, clsVars, stoVars, tp, ntf, pfiles, entries,
                   gkVars, owner>>

\* the caller's Lock() on the mutex it got returns when nobody holds it
QueueLock(p) ==
    /\ qpc[p] = "got"
    /\ owner[qref[p]] = Free
    /\ owner' = [owner EXCEPT ![qref[p]] = p]
    /\ qpc' = [qpc EXCEPT ![p] = "held"]
    /\ UNCHANGED <<now, limVars, thrVars, gw, clsVars, stoVars, tp, ntf, pfiles, entries,
                   gkVars, ipScan, allocated, qkey, qref>>

\* the caller's Unlock()
QueueUnlock(p) ==
    /\ qpc[p] = "held"
    /\ owner' = [owner EXCEPT ![qref[p]] = Free]
    /\ qpc' = [qpc EXCEPT ![p] = "released"]
    /\ UNCHANGED <<now, limVars, thrVars, gw, clsVars, stoVars, tp, ntf, pfiles, entries,
                   gkVars, ipScan, allocated, qkey, qref>>

\* Remove, lines 31-36, called by the caller that has unlocked the key's mutex
QueueRemove(p) ==
    /\ qpc[p] = "released"
    /\ ipScan' = Removed(ipScan, qkey[p])
    /\ qpc' = [qpc EXCEPT ![p] = "idle"]
    /\ qkey' = [qkey EXCEPT ![p] = NoIP]
    /\ qref' = [qref EXCEPT ![p] = 0]
    /\ UNCHANGED <<now, limVars, thrVars, gw, clsVars, stoVars, tp, ntf, pfiles, entries,
                   gkVars, allocated, owner>>

\* the caller is done with the key and leaves it in the map
QueueLeave(p) ==
    /\ qpc[p] = "released"
    /\ qpc' = [qpc EXCEPT ![p] = "idle"]
    /\ qkey' = [qkey EXCEPT ![p] = NoIP]
    /\ qref' = [qref EXCEPT ![p] = 0]
    /\ UNCHANGED <<now, limVars, thrVars, gw, clsVars, stoVars, tp, ntf, pfiles, entries,
                   gkVars, ipScan, allocated, owner>>

(***************************************************************************)
(* Specifications                                                          *)
(***************************************************************************)
\* no request is being handled
InitHandlerState ==
    /\ db = [i \in AllIPs |-> NoRow]
    /\ fw = [k \in Clients |-> <<>>]
    /\ hpc = [c \in Conns |-> "idle"]
    /\ hip = [c \in Conns |-> NoIP]
    /\ hinfo = [c \in Conns |-> NoInfo]
    /\ hidx = [c \in Conns |-> 0]
    /\ hsnap = [c \in Conns |-> <<>>]
    /\ resp = [c \in Conns |-> "none"]
    /\ hold = [c \in Conns |-> "none"]
    /\ eff = [c \in Conns |-> {}]
    /\ hhit = [c \in Conns |-> FALSE]
    /\ hord = [c \in Conns |-> 0]
    /\ hhj = [c \in Conns |-> "none"]
    /\ tried = [c \in Conns |-> {}]
    /\ okc = [c \in Conns |-> {}]
    /\ failc = [c \in Conns |-> {}]
    /\ fwok = {}
    /\ seen = [i \in AllIPs |-> NoSeen]
    /\ sop = NoOp
    /\ spc = "idle"
    /\ stats = NoStats
    /\ tp = [c \in Conns |-> NoHold]
    /\ ntf = [d \in NotifyDests |-> NoDeliveries]
    /\ pfiles = {}
    /\ entries = [i \in AllIPs |-> NoRow]
    /\ ipScan = [k \in AllIPs |-> 0]
    /\ allocated = 0
    /\ owner = [m \in 1..MaxMutexes |-> Free]
    /\ qpc = [p \in Threads |-> "idle"]
    /\ qkey = [p \in Threads |-> NoIP]
    /\ qref = [p \in Threads |-> 0]

InitLimiterState ==
    /\ now = 0
    /\ visitors = [i \in AllIPs |-> NoVisitor]
    /\ mu = Free
    /\ lpc = [p \in Threads \cup {Sweeper} |-> "idle"]
    /\ lip = [p \in Threads \cup {Sweeper} |-> NoIP]
    /\ lnow = [p \in Threads \cup {Sweeper} |-> 0]
    /\ lload = [p \in Threads \cup {Sweeper} |-> 0]
    /\ lret = [p \in Threads \cup {Sweeper} |-> NoRet]
    /\ gw = [i \in AllIPs |-> NoWindow]

\* the limiter alone, called by concurrent goroutines
InitLimiter ==
    /\ InitLimiterState
    /\ rate \in 0..MaxRate
    /\ cscore = 0
    /\ cout = NoOut
    /\ InitHandlerState
    /\ unifiClients = <<>>

NextLimiter ==
    \/ \E p \in Threads, ip \in IPs : AllowLock(p, ip)
    \/ \E p \in Threads : AllowFirst(p)
    \/ \E p \in Threads : AllowReset(p)
    \/ \E p \in Threads : AllowLoad(p)
    \/ \E p \in Threads : AllowIncr(p)
    \/ \E p \in Threads : AllowReturn(p)
    \/ \E p \in Threads, ip \in IPs : ResetLock(p, ip)
    \/ \E p \in Threads : ResetDelete(p)
    \/ CleanupLock
    \/ CleanupSweep
    \/ Tick

SpecLimiter == InitLimiter /\ [][NextLimiter]_vars

\* the classifier on every score of the scale
InitClassify ==
    /\ InitLimiterState
    /\ rate = MaxRate
    /\ cscore \in 0..ScoreHigh
    /\ cout = NoOut
    /\ InitHandlerState
    /\ unifiClients = <<>>

NextClassify == Classify

SpecClassify == InitClassify /\ [][NextClassify]_vars

\* NewGateKeeper: the limiter, an empty database, and the controllers whose
\* Login succeeded; then the server's handlers, the limiter's sweeper and the clock
Init ==
    /\ InitLimiterState
    /\ rate \in 0..MaxRate
    /\ cscore = 0
    /\ cout = NoOut
    /\ InitHandlerState
    /\ unifiClients \in {<<>>, <<1>>, <<1, 2>>}

Next ==
    \/ \E c \in Serving, ip \in ReqIPs, path \in ReqPaths : HandleExcluded(c, ip, path)
    \/ \E c \in Serving, ip \in ReqIPs, path \in ReqPaths : HandleRateLimited(c, ip, path)
    \/ \E c \in Serving, ip \in ReqIPs, path \in ReqPaths : HandleAllowed(c, ip, path)
    \/ \E c \in Serving : GetHit(c) /\ UNCHANGED seen
    \/ \E c \in Serving, dberr \in BOOLEAN : GetMiss(c, dberr)
    \/ \E c \in Serving, cerr \in BOOLEAN, answer \in CheckScores, cap \in ReqPayloads,
          setok \in BOOLEAN :
            CheckReturns(c, cerr, answer, cap, setok) /\ UNCHANGED seen
    \/ \E c \in Serving, markok \in BOOLEAN : FwFetchFails(c, markok)
    \/ \E c \in Serving, markok \in BOOLEAN : FwAlreadyMember(c, markok)
    \/ \E c \in Serving : FwFetched(c)
    \/ \E c \in Serving : FwPutApplied(c)
    \/ \E c \in Serving, markok \in BOOLEAN : FwPutOk(c, markok)
    \/ \E c \in Serving, markok \in BOOLEAN : FwPutFails(c, markok)
    \/ \E c \in Serving : HandlerNotifies(c) /\ UNCHANGED ntf
    \/ \E c \in Serving, hj \in HijackOutcomes : Respond(c, hj) /\ UNCHANGED <<tp, ntf>>
    \/ \E c \in Serving : TarpitEnds(c)
    \/ \E c \in Serving : Finish(c)
    \/ Observed /\ Cleanup
    \/ Observed /\ Tick

Spec == Init /\ [][Next]_vars

\* History of resolutions, kept beside the handler: what getOrCreateIPInfo has
\* just built from the answer of Check for the address of connection c, when,
\* and whether db.Get and db.Set returned no error in that call
Track(c) ==
    seen' = [seen EXCEPT ![hip[c]] =
                [valid |-> TRUE, t |-> now, score |-> hinfo'[c].score,
                 country |-> hinfo'[c].country,
                 stored |-> eff'[c] \cap {"geterr", "seterr"} = {}]]

\* the GateKeeper with one controller and the limiter at its highest rate,
\* its resolutions recorded
InitResolve ==
    /\ InitLimiterState
    /\ rate = MaxRate
    /\ cscore = 0
    /\ cout = NoOut
    /\ InitHandlerState
    /\ unifiClients = <<1>>

NextResolve ==
    \/ \E c \in Serving, ip \in ReqIPs, path \in ReqPaths : HandleExcluded(c, ip, path)
    \/ \E c \in Serving, ip \in ReqIPs, path \in ReqPaths : HandleRateLimited(c, ip, path)
    \/ \E c \in Serving, ip \in ReqIPs, path \in ReqPaths : HandleAllowed(c, ip, path)
    \/ \E c \in Serving : GetHit(c) /\ UNCHANGED seen
    \/ \E c \in Serving, dberr \in BOOLEAN : GetMiss(c, dberr)
    \/ \E c \in Serving, cerr \in BOOLEAN, answer \in CheckScores, cap \in ReqPayloads,
          setok \in BOOLEAN :
            CheckReturns(c, cerr, answer, cap, setok) /\ Track(c)
    \/ \E c \in Serving, markok \in BOOLEAN : FwFetchFails(c, markok)
    \/ \E c \in Serving, markok \in BOOLEAN : FwAlreadyMember(c, markok)
    \/ \E c \in Serving : FwFetched(c)
    \/ \E c \in Serving : FwPutApplied(c)
    \/ \E c \in Serving, markok \in BOOLEAN : FwPutOk(c, markok)
    \/ \E c \in Serving, markok \in BOOLEAN : FwPutFails(c, markok)
    \/ \E c \in Serving : HandlerNotifies(c) /\ UNCHANGED ntf
    \/ \E c \in Serving, hj \in HijackOutcomes : Respond(c, hj) /\ UNCHANGED <<tp, ntf>>
    \/ \E c \in Serving : TarpitEnds(c)
    \/ \E c \in Serving : Finish(c)
    \/ Observed /\ Tick

SpecResolve == InitResolve /\ [][NextResolve]_vars

\* the address whose requests arrive on every connection at once
RaceIPs == {"a"}

\* the request targets of the sightings that are followed on the same address
SightPaths == {"/", "/admin"}

\* the GateKeeper with one controller: sightings of one address on changing
\* request targets, its resolutions recorded, the database answering every call
InitSight == InitResolve

NextSight ==
    \/ \E c \in Serving, ip \in RaceIPs, path \in SightPaths : HandleRateLimited(c, ip, path)
    \/ \E c \in Serving, ip \in RaceIPs, path \in SightPaths : HandleAllowed(c, ip, path)
    \/ \E c \in Serving : GetHit(c) /\ UNCHANGED seen
    \/ \E c \in Serving : GetMiss(c, FALSE)
    \/ \E c \in Serving, cerr \in BOOLEAN, answer \in CheckScores :
            CheckReturns(c, cerr, answer, NoCapture, TRUE) /\ Track(c)
    \/ \E c \in Serving : FwFetchFails(c, TRUE)
    \/ \E c \in Serving : FwAlreadyMember(c, TRUE)
    \/ \E c \in Serving : FwFetched(c)
    \/ \E c \in Serving : FwPutApplied(c)
    \/ \E c \in Serving : FwPutOk(c, TRUE)
    \/ \E c \in Serving : FwPutFails(c, TRUE)
    \/ \E c \in Serving : HandlerNotifies(c) /\ UNCHANGED ntf
    \/ \E c \in Serving, hj \in HijackOutcomes : Respond(c, hj) /\ UNCHANGED <<tp, ntf>>
    \/ \E c \in Serving : TarpitEnds(c)
    \/ \E c \in Serving : Finish(c)
    \/ Observed /\ Tick

SpecSight == InitSight /\ [][NextSight]_vars

\* the addresses of the requests that are followed when private and loopback
\* addresses call: one of each, and a public one next to a private range
LocalReqIPs == LocalIPs \cup {"a"}

\* the GateKeeper with one controller, on requests from private, loopback and
\* public addresses within one window
InitLocal == InitResolve

NextLocal ==
    \/ \E c \in Serving, ip \in LocalReqIPs, path \in ReqPaths : HandleRateLimited(c, ip, path)
    \/ \E c \in Serving, ip \in LocalReqIPs, path \in ReqPaths : HandleAllowed(c, ip, path)
    \/ \E c \in Serving : GetHit(c) /\ UNCHANGED seen
    \/ \E c \in Serving, dberr \in BOOLEAN : GetMiss(c, dberr)
    \/ \E c \in Serving, cerr \in BOOLEAN, answer \in CheckScores :
            CheckReturns(c, cerr, answer, NoCapture, TRUE) /\ UNCHANGED seen
    \/ \E c \in Serving : FwFetchFails(c, TRUE)
    \/ \E c \in Serving : FwAlreadyMember(c, TRUE)
    \/ \E c \in Serving : FwFetched(c)
    \/ \E c \in Serving : FwPutApplied(c)
    \/ \E c \in Serving : FwPutOk(c, TRUE)
    \/ \E c \in Serving : FwPutFails(c, TRUE)
    \/ \E c \in Serving : HandlerNotifies(c) /\ UNCHANGED ntf
    \/ \E c \in Serving, hj \in HijackOutcomes : Respond(c, hj) /\ UNCHANGED <<tp, ntf>>
    \/ \E c \in Serving : TarpitEnds(c)
    \/ \E c \in Serving : Finish(c)

SpecLocal == InitLocal /\ [][NextLocal]_vars

\* Handlers running side by side, one per connection, on requests from the
\* same address, within one minute; the database answers every call, the
\* controller and AbuseIPDB may fail
InitRace ==
    /\ InitLimiterState
    /\ rate = MaxRate
    /\ cscore = 0
    /\ cout = NoOut
    /\ InitHandlerState
    /\ unifiClients = <<1>>

NextRace ==
    \/ \E c \in Conns, ip \in RaceIPs, path \in ReqPaths : HandleRateLimited(c, ip, path)
    \/ \E c \in Conns, ip \in RaceIPs, path \in ReqPaths : HandleAllowed(c, ip, path)
    \/ \E c \in Conns : GetHit(c) /\ UNCHANGED seen
    \/ \E c \in Conns : GetMiss(c, FALSE)
    \/ \E c \in Conns, cerr \in BOOLEAN, answer \in CheckScores, cap \in ReqPayloads :
            CheckReturns(c, cerr, answer, cap, TRUE) /\ UNCHANGED seen
    \/ \E c \in Conns : FwFetchFails(c, TRUE)
    \/ \E c \in Conns : FwAlreadyMember(c, TRUE)
    \/ \E c \in Conns : FwFetched(c)
    \/ \E c \in Conns : FwPutApplied(c)
    \/ \E c \in Conns : FwPutOk(c, TRUE)
    \/ \E c \in Conns : FwPutFails(c, TRUE)
    \/ \E c \in Conns : HandlerNotifies(c) /\ UNCHANGED ntf
    \/ \E c \in Conns, hj \in HijackOutcomes : Respond(c, hj) /\ UNCHANGED <<tp, ntf>>
    \/ \E c \in Conns : TarpitEnds(c)
    \/ \E c \in Conns : Finish(c)

SpecRace == InitRace /\ [][NextRace]_vars

\* Handlers running side by side, one per connection, on requests from
\* different addresses, within one minute, with one controller; the database
\* answers every call, the controller and AbuseIPDB may fail
InitBlockRace == InitRace

NextBlockRace ==
    \/ \E c \in Conns, ip \in IPs, path \in ReqPaths : HandleRateLimited(c, ip, path)
    \/ \E c \in Conns, ip \in IPs, path \in ReqPaths : HandleAllowed(c, ip, path)
    \/ \E c \in Conns : GetHit(c) /\ UNCHANGED seen
    \/ \E c \in Conns : GetMiss(c, FALSE)
    \/ \E c \in Conns, cerr \in BOOLEAN, answer \in CheckScores :
            CheckReturns(c, cerr, answer, NoCapture, TRUE) /\ UNCHANGED seen
    \/ \E c \in Conns : FwFetchFails(c, TRUE)
    \/ \E c \in Conns : FwAlreadyMember(c, TRUE)
    \/ \E c \in Conns : FwFetched(c)
    \/ \E c \in Conns : FwPutApplied(c)
    \/ \E c \in Conns : FwPutOk(c, TRUE)
    \/ \E c \in Conns : FwPutFails(c, TRUE)
    \/ \E c \in Conns : HandlerNotifies(c) /\ UNCHANGED ntf
    \/ \E c \in Conns, hj \in HijackOutcomes : Respond(c, hj) /\ UNCHANGED <<tp, ntf>>
    \/ \E c \in Conns : TarpitEnds(c)
    \/ \E c \in Conns : Finish(c)

SpecBlockRace == InitBlockRace /\ [][NextBlockRace]_vars

\* the database alone: an empty table and callers of Get, Set, MarkBlocked and
\* Delete
InitStore ==
    /\ InitLimiterState
    /\ rate = MaxRate
    /\ cscore = 0
    /\ cout = NoOut
    /\ InitHandlerState
    /\ unifiClients = <<>>

NextStore ==
    \/ \E ip \in IPs, dberr \in BOOLEAN : StoreGet(ip, dberr)
    \/ \E ip \in IPs, info \in StoreInfos, dberr \in BOOLEAN : StoreSet(ip, info, dberr)
    \/ \E ip \in IPs, dberr \in BOOLEAN : StoreMarkBlocked(ip, dberr)
    \/ \E ip \in IPs, dberr \in BOOLEAN : StoreDelete(ip, dberr)
    \/ StoreTick

SpecStore == InitStore /\ [][NextStore]_vars

\* the dashboard's GetStats beside the statements the handler sends: the Set of
\* getOrCreateIPInfo and the MarkBlocked of blockIPInUniFi
InitStats == InitStore

NextStats ==
    \/ \E ip \in IPs, info \in FreshInfos : StoreSet(ip, info, FALSE)
    \/ \E ip \in IPs : StoreMarkBlocked(ip, FALSE)
    \/ StoreTick
    \/ StatsTotal
    \/ StatsBlocked
    \/ StatsActive
    \/ StatsFails
    \/ StatsServed

SpecStats == InitStats /\ [][NextStats]_vars

\* the database and the cache, both empty, handed the same calls
InitPair == InitStore

NextPair ==
    \/ \E ip \in IPs, info \in PairInfos : BothSet(ip, info)
    \/ \E ip \in IPs : BothMarkBlocked(ip)
    \/ \E ip \in IPs : BothDelete(ip)
    \/ \E ip \in IPs : BothGet(ip)
    \/ CacheSweep
    \/ StoreTick

SpecPair == InitPair /\ [][NextPair]_vars

\* the queue, empty, and its callers
InitQueue == InitStore

NextQueue ==
    \/ \E p \in Threads, key \in IPs : QueueGet(p, key)
    \/ \E p \in Threads : QueueLock(p)
    \/ \E p \in Threads : QueueUnlock(p)
    \/ \E p \in Threads : QueueRemove(p)
    \/ \E p \in Threads : QueueLeave(p)

SpecQueue == InitQueue /\ [][NextQueue]_vars

\* the handler of one connection with one controller, within one window.
\* The handler's goroutine is scheduled, so the steps it takes by itself are
\* taken; the answers of AbuseIPDB and of the controller come when they come:
\* abuseip.NewClient and unifi.NewClient build an http.Client without Timeout
\* and the requests carry no deadline, so nothing makes these calls return.
InitCalls == InitResolve

\* what the handler does without waiting for anybody
LocalSteps ==
    \/ \E c \in Serving, ip \in ReqIPs, path \in ReqPaths : HandleRateLimited(c, ip, path)
    \/ \E c \in Serving, ip \in ReqIPs, path \in ReqPaths : HandleAllowed(c, ip, path)
    \/ \E c \in Serving : GetHit(c) /\ UNCHANGED seen
    \/ \E c \in Serving : GetMiss(c, FALSE)
    \/ \E c \in Serving : HandlerNotifies(c) /\ UNCHANGED ntf
    \/ \E c \in Serving, hj \in HijackOutcomes : Respond(c, hj) /\ UNCHANGED <<tp, ntf>>
    \/ \E c \in Serving : Finish(c)

\* the returns of the calls to AbuseIPDB and to the controller
RemoteSteps ==
    \/ \E c \in Serving, cerr \in BOOLEAN, answer \in CheckScores, setok \in BOOLEAN :
            CheckReturns(c, cerr, answer, NoCapture, setok) /\ UNCHANGED seen
    \/ \E c \in Serving, markok \in BOOLEAN : FwFetchFails(c, markok)
    \/ \E c \in Serving, markok \in BOOLEAN : FwAlreadyMember(c, markok)
    \/ \E c \in Serving : FwFetched(c)
    \/ \E c \in Serving : FwPutApplied(c)
    \/ \E c \in Serving, markok \in BOOLEAN : FwPutOk(c, markok)
    \/ \E c \in Serving, markok \in BOOLEAN : FwPutFails(c, markok)

NextCalls ==
    \/ LocalSteps
    \/ RemoteSteps
    \/ \E c \in Serving : TarpitEnds(c)

SpecCalls == InitCalls /\ [][NextCalls]_vars /\ WF_vars(LocalSteps)

\* the handler of one connection, within one window, with the notification
\* goroutines it starts; no controller is configured
InitNotify == InitStore

NextNotify ==
    \/ \E c \in Serving, ip \in RaceIPs, path \in ReqPaths : HandleRateLimited(c, ip, path)
    \/ \E c \in Serving, ip \in RaceIPs, path \in ReqPaths : HandleAllowed(c, ip, path)
    \/ \E c \in Serving : GetHit(c) /\ UNCHANGED seen
    \/ \E c \in Serving : GetMiss(c, FALSE)
    \/ \E c \in Serving, cerr \in BOOLEAN, answer \in CheckScores :
            CheckReturns(c, cerr, answer, NoCapture, TRUE) /\ UNCHANGED seen
    \/ \E c \in Serving : HandlerNotifies(c) /\ MultiNotify
    \/ \E c \in Serving, hj \in HijackOutcomes : Respond(c, hj) /\ UNCHANGED <<tp, ntf>>
    \/ \E c \in Serving : TarpitEnds(c)
    \/ \E c \in Serving : Finish(c)
    \/ \E d \in NotifyDests, sent \in BOOLEAN : Delivered(d, sent)

SpecNotify == InitNotify /\ [][NextNotify]_vars

\* the handler of one connection with config.Payload.Enabled true, on
\* requests from two addresses within one window; no controller is configured
InitCapture == InitStore

NextCapture ==
    \/ \E c \in Serving, ip \in IPs, path \in ReqPaths : HandleRateLimited(c, ip, path)
    \/ \E c \in Serving, ip \in IPs, path \in ReqPaths : HandleAllowed(c, ip, path)
    \/ \E c \in Serving : GetHit(c) /\ UNCHANGED seen
    \/ \E c \in Serving : GetMiss(c, FALSE)
    \/ \E c \in Serving, cerr \in BOOLEAN, answer \in CheckScores,
          mk \in BOOLEAN, rd \in BOOLEAN, size \in BodySizes, wr \in BOOLEAN :
            CheckReturns(c, cerr, answer, SavePayload(hip[c], mk, rd, size, wr), TRUE)
                /\ UNCHANGED seen
    \/ \E c \in Serving : HandlerNotifies(c) /\ UNCHANGED ntf
    \/ \E c \in Serving, hj \in HijackOutcomes : Respond(c, hj) /\ UNCHANGED <<tp, ntf>>
    \/ \E c \in Serving : TarpitEnds(c)
    \/ \E c \in Serving : Finish(c)

SpecCapture == InitCapture /\ [][NextCapture]_vars

\* the limiter with one caller and its sweeper.  The goroutines are
\* scheduled: a call that holds the mutex goes on to its return, the
\* sweeper's ticker keeps firing and sync.Mutex hands the lock to a waiter.
InitSweep == InitLimiter

\* the steps of a call after it has taken the mutex
CallSteps ==
    \E p \in {"t1"} :
        \/ AllowFirst(p) \/ AllowReset(p) \/ AllowLoad(p) \/ AllowIncr(p)
        \/ AllowReturn(p) \/ ResetDelete(p)

NextSweep ==
    \/ \E ip \in IPs : AllowLock("t1", ip)
    \/ \E ip \in IPs : ResetLock("t1", ip)
    \/ CallSteps
    \/ CleanupLock
    \/ CleanupSweep
    \/ Tick

SpecSweep ==
    /\ InitSweep /\ [][NextSweep]_vars
    /\ WF_vars(CallSteps) /\ SF_vars(CleanupLock) /\ WF_vars(CleanupSweep)

\* NewGateKeeper on a configuration whose ratelimit section says
\* enabled: false, with any requests_per_minute; then the handler of one
\* connection, all within one window
InitDisabled ==
    /\ InitLimiterState
    /\ rate \in {LimiterRate(LoadedRateLimit(FALSE, rpm)) : rpm \in 0..MaxRate}
    /\ cscore = 0
    /\ cout = NoOut
    /\ InitHandlerState
    /\ unifiClients = <<>>

NextDisabled ==
    \/ \E c \in Serving, ip \in RaceIPs, path \in ReqPaths : HandleRateLimited(c, ip, path)
    \/ \E c \in Serving, ip \in RaceIPs, path \in ReqPaths : HandleAllowed(c, ip, path)
    \/ \E c \in Serving : GetHit(c) /\ UNCHANGED seen
    \/ \E c \in Serving, dberr \in BOOLEAN : GetMiss(c, dberr)
    \/ \E c \in Serving, cerr \in BOOLEAN, answer \in CheckScores, setok \in BOOLEAN :
            CheckReturns(c, cerr, answer, NoCapture, setok) /\ UNCHANGED seen
    \/ \E c \in Serving : HandlerNotifies(c) /\ UNCHANGED ntf
    \/ \E c \in Serving, hj \in HijackOutcomes : Respond(c, hj) /\ UNCHANGED <<tp, ntf>>
    \/ \E c \in Serving : TarpitEnds(c)
    \/ \E c \in Serving : Finish(c)

SpecDisabled == InitDisabled /\ [][NextDisabled]_vars

\* the handler of one connection with its tarpit goroutine and the clock; no
\* controller is configured
InitTarpit == InitStore

\* the steps of the tarpit goroutines
HoldSteps ==
    \/ \E c \in Serving, wrote \in BOOLEAN : HoldWrite(c, wrote)
    \/ \E c \in Serving : HoldTimeout(c)

NextTarpit ==
    \/ \E c \in Serving, ip \in RaceIPs, path \in ReqPaths :
            now <= TarpitMaxStart /\ HandleRateLimited(c, ip, path)
    \/ \E c \in Serving, ip \in RaceIPs, path \in ReqPaths :
            now <= TarpitMaxStart /\ HandleAllowed(c, ip, path)
    \/ \E c \in Serving : GetHit(c) /\ UNCHANGED seen
    \/ \E c \in Serving : GetMiss(c, FALSE)
    \/ \E c \in Serving, cerr \in BOOLEAN, answer \in CheckScores :
            CheckReturns(c, cerr, answer, NoCapture, TRUE) /\ UNCHANGED seen
    \/ \E c \in Serving : HandlerNotifies(c) /\ UNCHANGED ntf
    \/ \E c \in Serving, hj \in HijackOutcomes : Respond(c, hj) /\ HoldStarts(c) /\ UNCHANGED ntf
    \/ \E c \in Serving : Finish(c)
    \/ HoldSteps
    \/ TarpitClock

\* the goroutines are scheduled and the clock advances
SpecTarpit ==
    InitTarpit /\ [][NextTarpit]_vars /\ WF_vars(HoldSteps) /\ WF_vars(TarpitClock)

(***************************************************************************)
(* Properties: the rate limiter                                            *)
(***************************************************************************)
Min(x, y) == IF x <= y THEN x ELSE y

InsideLimiter(p) == lpc[p] \in {"allow", "incr", "reset", "cleanup"}

\* C1: with rate R >= 1, an Allow call returns true iff it is among the first
\* R calls of its window (the window a call opens when none is open or the
\* open one started more than Window ago); a call that opens a window returns
\* true and leaves count = 1 and lastReset = the call's time; a call inside a
\* window leaves the window start unchanged and count = its ordinal.
C1_FixedWindow ==
    \A p \in Threads :
        (lret[p].valid /\ rate >= 1) =>
            /\ lret[p].res = (lret[p].ord <= rate)
            /\ lret[p].cnt = lret[p].ord
            /\ lret[p].start = lret[p].gstart
            /\ lret[p].fresh =>
                    (lret[p].res /\ lret[p].cnt = 1 /\ lret[p].start = lret[p].t)

\* C1 witness: a window had a call denied, and a call made after that window
\* had elapsed was allowed and reset the entry; a second caller, in the new
\* window, was denied as its (rate+1)-th call.
C1_Witness ==
    /\ rate >= 1
    /\ \E p, q \in Threads :
        /\ lret[p].valid /\ lret[p].existed /\ lret[p].fresh /\ lret[p].res
        /\ lret[p].t > Window
        /\ gw[lip[p]].den
        /\ lret[q].valid /\ ~lret[q].res /\ lret[q].ord = rate + 1
        /\ lip[q] = lip[p] /\ lret[q].gstart = lret[p].t

\* C2: an Allow call that finds no entry for its identity returns true and
\* creates the entry with count = 1, whatever the rate (0 included).
C2_FirstCallAllowed ==
    \A p \in Threads :
        (lret[p].valid /\ ~lret[p].existed) => (lret[p].res /\ lret[p].cnt = 1)

\* C2 witness: a first call on a limiter whose rate is 0 has returned.
C2_Witness ==
    \E p \in Threads : lret[p].valid /\ ~lret[p].existed /\ rate = 0

\* C3: only the holder of the mutex is inside Allow, Reset or cleanup; hence
\* no increment is lost (an entry's count is the number of calls completed in
\* its window), exactly min(N, R) of the N calls of a window returned true,
\* and whenever the mutex is free every entry is whole.
C3_AtomicAllow ==
    /\ \A p \in Threads \cup {Sweeper} : InsideLimiter(p) => mu = p
    /\ \A ip \in IPs :
        /\ Has(visitors, ip) =>
                (gw[ip].open /\ visitors[ip].count = gw[ip].n
                             /\ visitors[ip].lastReset = gw[ip].start)
        /\ (rate >= 1 /\ gw[ip].open) => gw[ip].ntrue = Min(gw[ip].n, rate)
        /\ (mu = Free /\ Has(visitors, ip)) =>
                (visitors[ip].count >= 1 /\ visitors[ip].lastReset <= visitors[ip].lastAccess)

\* C3 witness: two goroutines have both completed an Allow for the same
\* identity at the same instant, more calls than the rate allows, while the
\* sweeper is waiting inside cleanup's critical section.
C3_Witness ==
    /\ rate >= 1
    /\ lret["t1"].valid /\ lret["t2"].valid
    /\ lip["t1"] = lip["t2"]
    /\ lret["t1"].t = lret["t2"].t
    /\ gw[lip["t1"]].n > rate
    /\ lpc[Sweeper] = "cleanup"

(***************************************************************************)
(* Properties: the classifier                                              *)
(***************************************************************************)
\* C4: for every score 0..100, IsHighRisk is true iff the score is above 75
\* (75 is not high-risk, 76 is).
C4_HighRiskIffAbove75 ==
    cout.done => (cout.high <=> cscore > 75)

\* C4 witness: the boundary score 75 was classified.
C4_Witness == cout.done /\ cscore = 75 /\ ~cout.high

\* C5: GetSeverity is High iff s > 75, Medium iff 25 <= s <= 75, Low iff
\* s < 25, and it is High exactly when IsHighRisk is true.
C5_SeverityTiers ==
    cout.done =>
        /\ (cout.sev = "High") <=> (cscore > 75)
        /\ (cout.sev = "Medium") <=> (25 <= cscore /\ cscore <= 75)
        /\ (cout.sev = "Low") <=> (cscore < 25)
        /\ (cout.sev = "High") <=> cout.high

\* C5 witness: the boundary score 25 was classified Medium.
C5_Witness == cout.done /\ cscore = 25 /\ cout.sev = "Medium"

(***************************************************************************)
(* Properties: the request handler                                         *)
(***************************************************************************)
\* the controllers the GateKeeper holds a client for
Configured == {unifiClients[i] : i \in 1..Len(unifiClients)}

\* the handler of connection c is running or has just returned
InRequest(c) == hpc[c] # "idle"

\* the handler of connection c has returned after resolving a record
Resolved(c) == hpc[c] = "done" /\ resp[c] \notin {"200", "429"}

\* C6: a request from an excluded address is answered 200 at once, having
\* called neither the limiter, the database, AbuseIPDB, a controller nor the
\* notifier; and no excluded address ever has a rate window, a database row
\* or a firewall group membership.
C6_ExcludedBypass ==
    /\ \A c \in Conns :
            (InRequest(c) /\ hip[c] \in ExcludedIPs) =>
                (hpc[c] = "done" /\ resp[c] = "200" /\ eff[c] = {})
    /\ \A ip \in ExcludedIPs :
            /\ ~visitors[ip].present
            /\ ~gw[ip].open
            /\ ~db[ip].present
            /\ ip \notin fwok
            /\ \A k \in Clients : \A i \in 1..Len(fw[k]) : fw[k][i] # ip

\* C6 witness: an excluded address was answered 200 while another address
\* had a rate window and a database row.
C6_Witness ==
    \E c \in Conns :
        /\ hpc[c] = "done" /\ hip[c] \in ExcludedIPs /\ resp[c] = "200"
        /\ \E ip \in IPs : visitors[ip].present /\ db[ip].present

\* the limiter denies the hord[c]-th request of a window: it is beyond the
\* rate-th, and not the request that opened the window
Denied(c) == hord[c] > rate /\ hord[c] > 1

\* C7: a request from a non-excluded address is answered 429 iff the limiter
\* denies it, and then the handler has returned having called the limiter
\* only: no database lookup, no AbuseIPDB call, no controller call, no
\* notification.  With rate >= 1 the (rate+1)-th request of a window is
\* such a request.
C7_RateLimited ==
    \A c \in Conns :
        (InRequest(c) /\ hip[c] \notin ExcludedIPs) =>
            /\ Denied(c) <=> (resp[c] = "429")
            /\ Denied(c) =>
                    (hpc[c] = "done" /\ eff[c] = {"allow"} /\ tried[c] = {} /\ ~hhit[c])
            /\ (rate >= 1 /\ hord[c] = rate + 1) => resp[c] = "429"

\* C7 witness: the (rate+1)-th request of a window was answered 429 although
\* the database holds a row for its address.
C7_Witness ==
    \E c \in Conns :
        /\ hpc[c] = "done" /\ resp[c] = "429" /\ hord[c] = rate + 1
        /\ rate >= 1
        /\ db[hip[c]].present

\* what holds of every resolved request whose score is not high-risk, however
\* the connection is then disposed of
NoEscalation(c) ==
    /\ eff[c] \cap {"fw", "mark", "tarpit", "hold"} = {}
    /\ tried[c] = {}
    /\ okc[c] = {}
    /\ hold[c] = "none"

\* C8 as stated: every resolved request with score <= 75 ends with the
\* connection closed without a response, no controller called, the record
\* not marked blocked and no tarpit hold.
C8_AlwaysBareClose ==
    \A c \in Conns :
        (Resolved(c) /\ hinfo[c].score <= 75) =>
            (resp[c] = "closed" /\ NoEscalation(c))

\* C8 amended: every resolved request with score <= 75 goes to
\* dropConnection: the connection is closed without a response when it can be
\* hijacked, and a bare 403 status is written otherwise (no Hijacker, or
\* Hijack fails); in both cases no controller is called, the record is not
\* marked blocked and no tarpit hold is started.
C8_DropOrForbidden ==
    \A c \in Conns :
        (Resolved(c) /\ hinfo[c].score <= 75) =>
            /\ "drop" \in eff[c]
            /\ (hhj[c] = "ok") => resp[c] = "closed"
            /\ (hhj[c] # "ok") => resp[c] = "403"
            /\ NoEscalation(c)

\* C8 witness: with a controller configured, a request whose score is 75 was
\* answered 403 because the response writer could not be hijacked.
C8_Witness ==
    \E c \in Conns :
        /\ Resolved(c) /\ hinfo[c].score = 75 /\ ~hhit[c]
        /\ hhj[c] = "unsupported" /\ resp[c] = "403"
        /\ Len(unifiClients) > 0

\* C9 as stated: every resolved request whose record is high-risk has made
\* an add attempt on every controller and then entered tarpit.
C9_EveryHighRiskRequestBlocks ==
    \A c \in Conns :
        (Resolved(c) /\ hinfo[c].score > 75) =>
            (tried[c] = Configured /\ "tarpit" \in eff[c])

\* What the code does for C9's case: a request that found no row in the
\* database attempts every controller whatever the earlier ones answered, a
\* request that found one attempts none, and both enter tarpit.
BlockAttemptsOnMissOnly ==
    \A c \in Conns :
        (Resolved(c) /\ hinfo[c].score > 75) =>
            /\ tried[c] = (IF hhit[c] THEN {} ELSE Configured)
            /\ okc[c] \cup failc[c] = tried[c]
            /\ "tarpit" \in eff[c]

\* C10: a database row, or the IPInfo a handler holds, has blocked = true
\* only if AddIPToFirewall returned nil for that address on some controller;
\* with no controller nothing is ever blocked, and a request that consulted
\* the controllers and got an error from each holds blocked = false.
C10_BlockedOnlyAfterSuccess ==
    /\ \A ip \in AllIPs : (db[ip].present /\ db[ip].blocked) => ip \in fwok
    /\ \A c \in Conns : (InRequest(c) /\ hinfo[c].blocked) => hip[c] \in fwok
    /\ Len(unifiClients) = 0 => fwok = {}
    /\ \A c \in Conns :
            (InRequest(c) /\ ~hhit[c] /\ okc[c] = {}) => ~hinfo[c].blocked

\* C10 witness: a request was refused by one controller and accepted by the
\* other, and the row of its address is marked blocked.
C10_Witness ==
    \E c \in Conns :
        /\ hpc[c] = "done" /\ failc[c] # {} /\ okc[c] # {}
        /\ db[hip[c]].present /\ db[hip[c]].blocked

(***************************************************************************)
(* Properties: the resolver                                                *)
(***************************************************************************)
\* connection c's getOrCreateIPInfo gets the answer of db.Get in this step
GetAnswers(c) == hpc[c] = "get" /\ hpc'[c] # "get"

\* C11 as stated, for a database whose calls return no error: when
\* getOrCreateIPInfo has resolved an address with a Check call less than TTL
\* ago, the next call for that address is answered by db.Get (no second
\* Check call) with the same score and country.
C11_SecondResolutionFromStore ==
    [][\A c \in Conns :
        (/\ GetAnswers(c)
         /\ seen[hip[c]].valid /\ seen[hip[c]].stored
         /\ now - seen[hip[c]].t < TTL
         /\ "geterr" \notin eff'[c])
        => (/\ hhit'[c]
            /\ "check" \notin eff'[c]
            /\ hinfo'[c].score = seen[hip[c]].score
            /\ hinfo'[c].country = seen[hip[c]].country)]_vars

\* the handlers whose Check call for address ip is in flight
LookupsInFlight(ip) == {c \in Conns : hpc[c] = "check" /\ hip[c] = ip}

\* C12 as stated: at any time at most one Check call is in flight for an
\* address, and handlers that resolved the same address side by side hold
\* the same score and country.
C12_OneLookupInFlight ==
    /\ \A ip \in IPs : Cardinality(LookupsInFlight(ip)) <= 1
    /\ \A c, d \in Conns :
            (/\ hip[c] = hip[d]
             /\ hpc[c] \in {"block", "put", "putwait", "respond", "answer"}
             /\ hpc[d] \in {"block", "put", "putwait", "respond", "answer"})
            => (hinfo[c].score = hinfo[d].score /\ hinfo[c].country = hinfo[d].country)

\* C13: a request whose Check call returned an error is resolved all the
\* same, with score 0 and country "Unknown"; it is never answered 429, never
\* goes to blockIPInUniFi or tarpit, and ends in dropConnection (a bare close,
\* or the bare 403 of C8 when the connection cannot be hijacked).
C13_LookupErrorIsLowRisk ==
    \A c \in Conns :
        (InRequest(c) /\ "checkerr" \in eff[c]) =>
            /\ hinfo[c].score = 0 /\ hinfo[c].country = "Unknown"
            /\ ~hinfo[c].blocked
            /\ hpc[c] \in {"respond", "answer", "done"}
            /\ resp[c] \notin {"429", "200", "tarpit", "503"}
            /\ NoEscalation(c)
            /\ hpc[c] = "done" => ("drop" \in eff[c] /\ resp[c] \in {"closed", "403"})

\* C13 witness: with a controller configured, a request whose Check call
\* failed has ended with the connection closed.
C13_Witness ==
    \E c \in Conns :
        /\ hpc[c] = "done" /\ "checkerr" \in eff[c] /\ resp[c] = "closed"
        /\ Len(unifiClients) > 0

\* connection c's getOrCreateIPInfo gets the answer of Check and calls db.Set in this step
CheckAnswers(c) == hpc[c] = "check" /\ hpc'[c] # "check"

\* C14 as stated: when the address of a request has an expired row and the
\* request is resolved by a Check call whose db.Set returns nil, the row is
\* not expired afterwards (so the sightings that follow within the TTL hit).
C14_ResightingRefreshesRecord ==
    [][\A c \in Conns :
        (/\ CheckAnswers(c)
         /\ db[hip[c]].present /\ now - db[hip[c]].ts >= TTL
         /\ "seterr" \notin eff'[c])
        => (db'[hip[c]].present /\ now - db'[hip[c]].ts < TTL)]_vars

(***************************************************************************)
(* Properties: the reputation store                                        *)
(***************************************************************************)
\* C15: Get answers with a record iff the table has a row for the address
\* whose age (now - timestamp) is below the ttl, and then it is that row, in
\* every column Get selects; a row of age ttl or more is reported as absent.
\* In particular a row stored at T is returned at T + TTL - 1 and absent at
\* T + TTL + 1.
C15_GetIffNotExpired ==
    (sop.op = "get" /\ ~sop.err) =>
        LET row == db[sop.ip] IN
        /\ sop.out.present <=> (row.present /\ now - row.ts < TTL)
        /\ sop.out.present => sop.out = [row EXCEPT !.upd = 0]
        /\ (row.present /\ now = row.ts + TTL - 1) => sop.out.present
        /\ (row.present /\ now = row.ts + TTL + 1) => ~sop.out.present

\* Get has just reported as absent a row that is one tick past its ttl
C15_Witness ==
    /\ sop.op = "get" /\ ~sop.err
    /\ db[sop.ip].present /\ now = db[sop.ip].ts + TTL + 1
    /\ ~sop.out.present

\* C16 as stated: the blocked flag is monotonic: no step of the program takes
\* a row whose blocked_in_fw is true to a row of the same address whose
\* blocked_in_fw is false.
C16_BlockedIsMonotonic ==
    [][\A ip \in AllIPs :
        (db[ip].present /\ db[ip].blocked /\ db'[ip].present) => db'[ip].blocked]_vars

\* C17 as stated: Set is an upsert on the address: it leaves one row for the
\* address carrying the caller's path, score and blocked flag, touches no
\* other row, stores the caller's payload reference when there is one, and
\* keeps the row's existing payload reference when the caller gives none.
C17_PutKeepsPayloadReference ==
    [][(sop'.op = "set" /\ ~sop'.err) =>
        LET ip == sop'.ip
            info == sop'.arg
        IN  /\ db'[ip].present
            /\ db'[ip].path = info.path
            /\ db'[ip].score = info.score
            /\ db'[ip].blocked = info.blocked
            /\ \A j \in AllIPs \ {ip} : db'[j] = db[j]
            /\ info.payload # "" => db'[ip].payload = info.payload
            /\ (db[ip].present /\ info.payload = "")
                   => db'[ip].payload = db[ip].payload]_vars

\* the columns of a row that some statement of IPDatabase reads (Get, GetStats
\* and GetAllIPs select or test every column but updated_at)
ReadColumns(row) == [row EXCEPT !.upd = 0]

\* C18 as stated: MarkBlocked(ip) that returns nil sets blocked_in_fw on the
\* row of ip and changes nothing else of that row, changes no other row,
\* creates no row when ip has none, and leaves a table that a second
\* MarkBlocked(ip), whenever it is made, does not change.
C18_MarkBlockedChangesFlagOnly ==
    [][(sop'.op = "mark" /\ ~sop'.err) =>
        LET ip == sop'.ip IN
        /\ \A j \in AllIPs \ {ip} : db'[j] = db[j]
        /\ db[ip].present => db'[ip] = [db[ip] EXCEPT !.blocked = TRUE]
        /\ ~db[ip].present => db'[ip] = db[ip]
        /\ \A t \in now'..StoreMaxTime : DbMarkBlocked(db', ip, t) = db']_vars

\* C18: MarkBlocked(ip) that returns nil sets blocked_in_fw on the row of ip
\* and sets its updated_at to the time of the call, changes no other column
\* of that row, changes no other row and creates no row when ip has none; a
\* second MarkBlocked(ip), whenever it is made, changes nothing but the
\* updated_at of that row, so every column a query reads is as after the
\* first.
C18_MarkBlockedIdempotent ==
    [][(sop'.op = "mark" /\ ~sop'.err) =>
        LET ip == sop'.ip IN
        /\ \A j \in AllIPs \ {ip} : db'[j] = db[j]
        /\ db[ip].present => db'[ip] = [db[ip] EXCEPT !.blocked = TRUE, !.upd = now]
        /\ ~db[ip].present => db'[ip] = db[ip]
        /\ \A t \in now'..StoreMaxTime :
              /\ \A j \in AllIPs \ {ip} : DbMarkBlocked(db', ip, t)[j] = db'[j]
              /\ DbMarkBlocked(db', ip, t)[ip] =
                    IF db'[ip].present THEN [db'[ip] EXCEPT !.upd = t] ELSE db'[ip]
              /\ ReadColumns(DbMarkBlocked(db', ip, t)[ip]) = ReadColumns(db'[ip])]_vars

\* MarkBlocked has returned nil on a row that was inserted earlier: the row
\* is blocked, its updated_at is the time of this call and later than its
\* timestamp; the other address has a row that is not blocked
C18_Witness ==
    /\ sop.op = "mark" /\ ~sop.err
    /\ db[sop.ip].present /\ db[sop.ip].blocked
    /\ db[sop.ip].upd = now /\ db[sop.ip].ts < now
    /\ \E j \in IPs \ {sop.ip} : db[j].present /\ ~db[j].blocked

\* MarkBlocked has returned nil on an address without a row while the other
\* address has a row that is not blocked
MarkBlockedOnAbsentRow ==
    /\ sop.op = "mark" /\ ~sop.err
    /\ ~db[sop.ip].present
    /\ \E j \in IPs \ {sop.ip} : db[j].present /\ ~db[j].blocked

\* C19 as stated: the expiry sweep comes due every cleanup interval for as
\* long as the store lives and deletes the rows older than the ttl, so the
\* table never holds a row older than the ttl plus one cleanup interval.
C19_ExpiredRowsAreSwept ==
    \A ip \in AllIPs :
        db[ip].present => now - db[ip].ts <= TTL + CleanupInterval

\* GetStats runs its last counting query in this step and returns
StatsReturns == spc = "active" /\ spc' = "done"

\* the Stats' active count is the number of addresses Get answers for at the
\* instant of the counting query (an expired row does not count)
ActiveCountsWhatGetReturns ==
    [][StatsReturns =>
        stats'.active = Cardinality({ip \in AllIPs : DbGet(db, ip, now).present})]_vars

\* C20 as stated: the Stats that GetStats returns have active equal to the
\* number of addresses Get answers for at that instant, and have
\* active <= total and blocked <= total.
C20_StatsAreConsistent ==
    [][StatsReturns =>
        /\ stats'.active = Cardinality({ip \in AllIPs : DbGet(db, ip, now).present})
        /\ stats'.active <= stats'.total
        /\ stats'.blocked <= stats'.total]_vars

(***************************************************************************)
(* Properties: the firewall backend                                        *)
(***************************************************************************)
\* how many times the address is in a member list
Occurrences(members, ip) == Cardinality({i \in 1..Len(members) : members[i] = ip})

\* the handler of c is in AddIPToFirewall on this controller
AddingOn(c) == unifiClients[hidx[c]]

\* the AddIPToFirewall call of c, at its start, moves on in this step
AddMoves(c) == hpc[c] = "block" /\ (hpc'[c] # "block" \/ hidx'[c] # hidx[c])

\* C21: when AddIPToFirewall is called for an address that is already a member
\* of the controller's group, no PUT is sent, the group is left as it is with
\* the address in it exactly once, and, the group having been fetched, the
\* call returns nil.
C21_AddIsIdempotent ==
    [][\A c \in Conns :
        (AddMoves(c) /\ Occurrences(fw[AddingOn(c)], hip[c]) >= 1) =>
            /\ hpc'[c] # "put"
            /\ "put" \notin eff'[c] \ eff[c]
            /\ fw' = fw
            /\ Occurrences(fw'[AddingOn(c)], hip[c]) = 1
            /\ "fetcherr" \notin eff'[c] =>
                   (AddingOn(c) \in okc'[c] /\ AddingOn(c) \notin failc'[c])]_vars

\* a request's AddIPToFirewall calls have returned nil on both controllers
\* without a PUT: the address was a member of both groups already
C21_Witness ==
    \E c \in Conns :
        /\ hpc[c] = "respond"
        /\ okc[c] = {1, 2}
        /\ eff[c] \cap {"put", "puterr", "fetcherr"} = {}
        /\ \A k \in Clients : Occurrences(fw[k], hip[c]) = 1

(***************************************************************************)
(* Properties: the tarpit hold                                             *)
(***************************************************************************)
\* C22: a running hold writes its bytes one at a time, one tick interval
\* after its start or after the byte before; a byte is written only by a
\* hold that is running, has had no failed write and is not past the maximum
\* duration; a failed write ends the hold; no hold runs past the maximum
\* duration; and every hold ends (the connection is closed).
C22_TarpitHoldIsBounded ==
    /\ [][\A c \in Conns :
            tp'[c].bytes > tp[c].bytes =>
                /\ hold[c] = "holding" /\ ~tp[c].failed
                /\ tp'[c].bytes = tp[c].bytes + 1
                /\ now - tp[c].start <= TarpitDuration
                /\ now - (IF tp[c].bytes = 0 THEN tp[c].start ELSE tp[c].last)
                       = TarpitTickInterval]_vars
    /\ [](\A c \in Conns : tp[c].failed => hold[c] = "none")
    /\ [](\A c \in Conns : hold[c] = "holding" => now - tp[c].start <= TarpitDuration)
    /\ \A c \in Conns : (hold[c] = "holding") ~> (hold[c] = "none")

\* a hold has ended on the timeout after writing a byte in every interval
C22_Witness ==
    \E c \in Conns :
        /\ hold[c] = "none" /\ ~tp[c].failed
        /\ tp[c].bytes >= TarpitDuration - 1
        /\ now - tp[c].start = TarpitDuration

\* C23 as stated: when a high-risk request is to be tarpitted and the
\* connection cannot be taken over (no http.Hijacker, or Hijack fails), the
\* handler has written a rejecting status when it returns and no hold runs.
C23_FailedTakeoverRejects ==
    \A c \in Conns :
        (hpc[c] = "done" /\ "tarpit" \in eff[c] /\ hhj[c] # "ok") =>
            /\ resp[c] \in {"503", "403"}
            /\ "hold" \notin eff[c]
            /\ hold[c] = "none"

(***************************************************************************)
(* Properties: configuration                                               *)
(***************************************************************************)
\* C24 as stated: with rate limiting disabled in the configuration, no
\* request is answered with 429, however many an address sends in a window.
C24_DisabledNeverRejects ==
    \A c \in Conns : resp[c] # "429"

\* C25 as stated: a request resolved by a Check that answered a score of 75
\* or more (75 included) is handled as high-risk: AddIPToFirewall is called
\* on the configured controllers and the response is the tarpit.
C25_ScoreFrom75IsBlocked ==
    \A c \in Conns :
        (/\ hpc[c] \in {"respond", "answer", "done"}
         /\ "check" \in eff[c] /\ "checkerr" \notin eff[c]
         /\ hinfo[c].score >= 75
         /\ Len(unifiClients) > 0)
        => (/\ tried[c] = Configured
            /\ hpc[c] = "done" => "tarpit" \in eff[c])

(***************************************************************************)
(* Properties: the limiter's idle sweep                                    *)
(***************************************************************************)
\* cleanup runs its loop and unlocks in this step
SweepRuns == lpc[Sweeper] = "cleanup" /\ lpc'[Sweeper] = "idle"

\* C26: a run of cleanup deletes the entries whose lastAccess is more than
\* 2 x window before now and leaves every other entry as it was; and an entry
\* that is idle that long does not stay: it is deleted (or accessed again).
C26_IdleEntriesAreSwept ==
    /\ [][SweepRuns =>
            \A ip \in AllIPs :
                visitors'[ip] =
                    IF visitors[ip].present /\ now - visitors[ip].lastAccess > 2 * Window
                    THEN NoVisitor ELSE visitors[ip]]_vars
    /\ \A ip \in AllIPs :
          (visitors[ip].present /\ now - visitors[ip].lastAccess > 2 * Window)
              ~> ~(visitors[ip].present /\ now - visitors[ip].lastAccess > 2 * Window)

\* the sweep has deleted the entry of an address whose window is still on
\* record (Reset would have forgotten it) and has kept another entry
C26_Witness ==
    /\ lpc[Sweeper] = "idle"
    /\ \E ip \in IPs :
          /\ gw[ip].open /\ ~visitors[ip].present
          /\ \E j \in IPs \ {ip} : visitors[j].present

(***************************************************************************)
(* Properties: failures of the collaborators                               *)
(***************************************************************************)
\* the response of a handler that has returned is the one its record's score
\* calls for: the tarpit above the threshold, the drop otherwise
OutcomeByScore(c) ==
    IF hinfo[c].score > ScoreThreshold
    THEN "tarpit" \in eff[c] /\ "drop" \notin eff[c] /\ resp[c] \in {"tarpit", "503", "none"}
    ELSE "drop" \in eff[c] /\ "tarpit" \notin eff[c] /\ resp[c] \in {"closed", "403"}

\* C27: a request whose db.Set or db.MarkBlocked failed goes on: it holds the
\* score that Check answered (0 after a Check error) and the blocked flag a
\* successful AddIPToFirewall sets, and when the handler returns its
\* response is the one that score calls for.
C27_StorageFailureKeepsOutcome ==
    \A c \in Conns :
        (InRequest(c) /\ eff[c] \cap {"seterr", "markerr"} # {}) =>
            /\ hpc[c] \in {"block", "put", "putwait", "respond", "answer", "done"}
            /\ hinfo[c].score \in (IF "checkerr" \in eff[c] THEN {0} ELSE CheckScores)
            /\ "markerr" \in eff[c] => hinfo[c].blocked
            /\ hpc[c] = "done" => OutcomeByScore(c)

\* a high-risk request has been answered with the tarpit although both
\* db.Set and db.MarkBlocked failed
C27_Witness ==
    \E c \in Conns :
        /\ hpc[c] = "done"
        /\ {"seterr", "markerr"} \subseteq eff[c]
        /\ resp[c] = "tarpit"

(***************************************************************************)
(* Properties: notification                                                *)
(***************************************************************************)
\* the handler of c calls Notify in this step
Notifies(c) == hpc[c] = "respond" /\ hpc'[c] = "answer"

\* the handler of c answers in this step
Responds(c) == hpc[c] = "answer" /\ hpc'[c] = "done"

\* C28: the handler's Notify starts one delivery per destination, whatever
\* deliveries are still sending or have failed, and returns; from then on
\* the handler can answer at once, with the deliveries sent, failed or still
\* sending, and its answer leaves them alone; a delivery that returns
\* changes only its own destination's account, not the handler and not the
\* response; and the response is the one the record's score calls for.
C28_NotifyIsAsynchronous ==
    /\ [][\A c \in Conns :
            Notifies(c) =>
                \A d \in NotifyDests :
                    ntf'[d] = [ntf[d] EXCEPT !.pending = @ + 1]]_vars
    /\ [][\A c \in Conns : Responds(c) => ntf' = ntf]_vars
    /\ [](\A c \in Conns :
            hpc[c] = "answer" =>
                ENABLED (Respond(c, "ok") /\ UNCHANGED <<tp, ntf>>))
    /\ [][\A d \in NotifyDests :
            ntf'[d].pending < ntf[d].pending =>
                /\ \A e \in NotifyDests \ {d} : ntf'[e] = ntf[e]
                /\ UNCHANGED <<hpc, resp, hinfo, hold, db>>]_vars
    /\ [](\A c \in Conns : (hpc[c] = "done" /\ Resolved(c)) => OutcomeByScore(c))

\* a handler has answered with the drop while its delivery to one
\* destination is still sending and an earlier delivery there has failed,
\* and the other destination has been sent both
C28_Witness ==
    \E c \in Conns :
        /\ hpc[c] = "done" /\ resp[c] = "closed"
        /\ ntf["n1"].pending = 1 /\ ntf["n1"].failed = 1
        /\ ntf["n2"].sent = 2

(***************************************************************************)
(* Properties: the hand-over to the tarpit                                 *)
(***************************************************************************)
\* C29: the step in which the hold goroutine is started is the handler's
\* return, whatever the hold does later; while the hold runs no handler runs
\* on the connection and the response the handler left is not written over;
\* and the hold is ended (the connection closed) only by the goroutine
\* itself, on a failed write or on its timeout, in a step that leaves the
\* handler alone.
C29_TarpitIsHandedOver ==
    [][\A c \in Conns :
        /\ (hold[c] # "holding" /\ hold'[c] = "holding") =>
               (hpc[c] = "answer" /\ hpc'[c] = "done" /\ tp'[c].bytes = 0)
        /\ (hold[c] = "holding" /\ hpc[c] = "idle") =>
               (hpc'[c] = "idle" /\ resp'[c] = resp[c])
        /\ (hold[c] = "holding" /\ hold'[c] = "none") =>
               /\ tp'[c].failed \/ now - tp[c].start >= TarpitDuration
               /\ hpc'[c] = hpc[c] /\ resp'[c] = resp[c]]_vars

\* the handler has returned and its goroutine is over while the hold it
\* started is writing
C29_Witness ==
    \E c \in Conns : hold[c] = "holding" /\ hpc[c] = "idle" /\ tp[c].bytes >= 1

\* C30 as stated: every handler that has started a request returns, whether
\* or not AbuseIPDB and the controller answer.
C30_HandlersComplete ==
    \A c \in Conns : (hpc[c] # "idle") ~> (hpc[c] = "idle")

\* a handler that is not waiting for AbuseIPDB or the controller returns
HandlersCompleteUnlessCalling ==
    \A c \in Conns :
        (hpc[c] # "idle") ~> (hpc[c] = "idle" \/ hpc[c] \in {"check", "block", "put", "putwait"})

(***************************************************************************)
(* Properties: what the handler notifies, stores and captures              *)
(***************************************************************************)
\* the notification goroutines started so far for destination d
Launched(n, d) == n[d].pending + n[d].sent + n[d].failed

\* C31 as stated: a request dispatches one notification per destination
\* when it is resolved as high-risk, and none otherwise: a handler whose
\* record is not high-risk (its request ends in the drop), and every other
\* step, starts no notification goroutine.
C31_NotifyOnEscalationOnly ==
    [][\A d \in NotifyDests :
          Launched(ntf', d) =
              Launched(ntf, d)
                + (IF \E c \in Conns : Notifies(c) /\ IsHighRisk(hinfo[c].score)
                   THEN 1 ELSE 0)]_vars

\* every request that gets past the limiter dispatches one notification per
\* destination, high-risk or not; the others dispatch none
NotifyOnEveryResolution ==
    [][\A d \in NotifyDests :
          Launched(ntf', d) =
              Launched(ntf, d) + (IF \E c \in Conns : Notifies(c) THEN 1 ELSE 0)]_vars

\* C32 as stated: when db.Get answers a sighting with a row that is not
\* expired, the row's path becomes the request's path, its score, country
\* and blocked flag stay as they were, and no Check call is made.
C32_HitUpdatesStoredPath ==
    [][\A c \in Conns :
        (GetAnswers(c) /\ hhit'[c]) =>
            /\ db'[hip[c]].path = hinfo'[c].path
            /\ db'[hip[c]].score = db[hip[c]].score
            /\ db'[hip[c]].country = db[hip[c]].country
            /\ db'[hip[c]].blocked = db[hip[c]].blocked
            /\ "check" \notin eff'[c]]_vars

\* what the code does on such a sighting: the record handed back carries the
\* request's path and the row's score, country and blocked flag; the row
\* itself is not written, and no Check call is made
HitLeavesRowAlone ==
    [][\A c \in Conns :
        (GetAnswers(c) /\ hhit'[c]) =>
            /\ db' = db
            /\ hinfo'[c].score = db[hip[c]].score
            /\ hinfo'[c].country = db[hip[c]].country
            /\ hinfo'[c].blocked = db[hip[c]].blocked
            /\ "check" \notin eff'[c]]_vars

\* C33: with capture enabled, a file is written only in the step in which a
\* request that db.Get missed gets the answer of Check, never for a request
\* that db.Get answered; a request whose capture failed (or whose body was
\* empty) holds and has stored a record without payload reference, a record
\* resolved with a reference refers to a file that was written, and in
\* either case the response is the one the score calls for.
C33_CaptureOnMissOnly ==
    /\ [][pfiles' # pfiles =>
            \E c \in Conns : CheckAnswers(c) /\ ~hhit[c] /\ "check" \in eff[c]]_vars
    /\ [][\A c \in Conns : (GetAnswers(c) /\ hhit'[c]) =>
            (pfiles' = pfiles /\ "caperr" \notin eff'[c])]_vars
    /\ [](\A c \in Conns :
            /\ (InRequest(c) /\ "caperr" \in eff[c]) =>
                    (hinfo[c].payload = "" /\ db[hip[c]].payload = "")
            /\ (InRequest(c) /\ "set" \in eff[c] /\ hinfo[c].payload # "") =>
                    \E f \in pfiles : f.name = hinfo[c].payload /\ f.size >= 1
            /\ (hpc[c] = "done" /\ Resolved(c)) => OutcomeByScore(c))

\* a request whose capture failed has been answered with the tarpit, after
\* the payload of an earlier request from the other address was captured
C33_Witness ==
    \E c \in Conns :
        /\ hpc[c] = "done" /\ "caperr" \in eff[c] /\ resp[c] = "tarpit"
        /\ hinfo[c].payload = ""
        /\ \E f \in pfiles : f.name # PayloadName(hip[c]) /\ f.size = PayloadMaxSize

\* C34: a request from a private or loopback address that reaches the
\* resolver never has an HTTP request sent to AbuseIPDB; when db.Get missed,
\* its Check call returned an error; its record has score 0 (and country
\* "Unknown" when Check was called); it never goes to a controller or to the
\* tarpit, and it ends in dropConnection.
C34_LocalAddressesAreDropped ==
    \A c \in Conns :
        (InRequest(c) /\ hip[c] \in LocalIPs) =>
            /\ "http" \notin eff[c]
            /\ "set" \in eff[c] =>
                    ("checkerr" \in eff[c] /\ hinfo[c].country = "Unknown")
            /\ hpc[c] \in {"respond", "answer", "done"} => hinfo[c].score = 0
            /\ hpc[c] \notin {"block", "put", "putwait"}
            /\ NoEscalation(c) /\ ~hinfo[c].blocked /\ hip[c] \notin fwok
            /\ (hpc[c] = "done" /\ resp[c] # "429") =>
                    ("drop" \in eff[c] /\ resp[c] \in {"closed", "403"})

\* a request from the private address has been dropped on an answer from the
\* store, after the public address next to the private range was sent to
\* AbuseIPDB and added to the controller's group
C34_Witness ==
    \E c \in Conns :
        /\ hpc[c] = "done" /\ hip[c] = "p" /\ hhit[c] /\ resp[c] = "closed"
        /\ "a" \in fwok

(***************************************************************************)
(* Properties: concurrent escalations                                      *)
(***************************************************************************)
\* C35 as stated: every address for which an AddIPToFirewall call on the
\* controller returned nil is a member of the controller's group, and so is
\* every address whose row is marked blocked, however the calls of
\* concurrent handlers interleave.
C35_NoMemberIsLost ==
    \A ip \in IPs :
        (ip \in fwok \/ (db[ip].present /\ db[ip].blocked)) =>
            \A i \in 1..Len(unifiClients) :
                Occurrences(fw[unifiClients[i]], ip) >= 1

\* when the calls on a controller do not overlap (no other handler is
\* between its fetch and its PUT), a PUT loses no member
PutAloneKeepsMembers ==
    [][\A c \in Conns :
        (/\ hpc[c] = "put" /\ hpc'[c] # "put"
         /\ hsnap[c] = fw[AddingOn(c)])
        => \A ip \in IPs :
              Occurrences(fw[AddingOn(c)], ip) >= 1 =>
                  Occurrences(fw'[AddingOn(c)], ip) >= 1]_vars

(***************************************************************************)
(* Properties: the rate limiter's window and its sweep                     *)
(***************************************************************************)
\* the Allow call of p returns in this step
AllowEnds(p) == lpc[p] \in {"allow", "incr"} /\ lpc'[p] = "ret"

\* C36: an Allow call that returns false has incremented the entry's count,
\* has set lastAccess to its time and leaves lastReset at the start of the
\* identity's window; and a call made more than Window after the start of
\* the identity's window returns true, whatever calls were denied in between.
C36_DenialsKeepWindow ==
    [][\A p \in Threads :
        AllowEnds(p) =>
            /\ ~lret'[p].res =>
                    /\ gw[lip[p]].open
                    /\ visitors'[lip[p]].lastReset = gw[lip[p]].start
                    /\ visitors'[lip[p]].count = visitors[lip[p]].count + 1
                    /\ visitors'[lip[p]].lastAccess = lret'[p].t
            /\ (gw[lip[p]].open /\ lret'[p].t - gw[lip[p]].start > Window) =>
                    lret'[p].res]_vars

\* with rate 0, where every call inside a window is denied, a call made after
\* the window of the denied calls had elapsed has found the entry and
\* returned true
C36_Witness ==
    /\ rate = 0
    /\ \E p \in Threads :
          /\ lret[p].valid /\ lret[p].existed /\ lret[p].res /\ lret[p].fresh
          /\ gw[lip[p]].den

\* the visitor map of a limiter whose cleanup never runs, after the calls
\* made so far: the history's window of each identity, as an entry
Unswept(g) ==
    [i \in AllIPs |->
        IF g[i].open
        THEN [present |-> TRUE, count |-> g[i].n, lastReset |-> g[i].start,
              lastAccess |-> g[i].start]
        ELSE NoVisitor]

\* C37: every Allow call returns what the same call returns on the limiter
\* whose cleanup never runs, and the history goes on as that limiter's entry
\* (count and lastReset) does; the entry of the limiter itself, when it has
\* one after the call, has the same count and lastReset.
C37_SweepIsTransparent ==
    [][\A p \in Threads :
        AllowEnds(p) =>
            LET ref == Allow(Unswept(gw), lip[p], lret'[p].t, rate)
            IN /\ lret'[p].res = ref.ok
               /\ gw'[lip[p]].n = ref.m[lip[p]].count
               /\ gw'[lip[p]].start = ref.m[lip[p]].lastReset
               /\ visitors'[lip[p]].count = ref.m[lip[p]].count
               /\ visitors'[lip[p]].lastReset = ref.m[lip[p]].lastReset]_vars

\* a call found no entry for an identity whose earlier window had a denied
\* call (the sweep had removed the entry) and returned true
C37_Witness ==
    \E p \in Threads :
        /\ lret[p].valid /\ ~lret[p].existed /\ lret[p].res
        /\ gw[lip[p]].den

(***************************************************************************)
(* Properties: failed lookups in the store                                 *)
(***************************************************************************)
\* C38 as stated, for a database whose calls return no error: when the last
\* Check call for an address failed less than TTL ago and its score-0 /
\* "Unknown" record was handed to db.Set, the next resolution of the address
\* is answered by db.Get with score 0 and makes no Check call.
C38_FailedLookupIsCached ==
    [][\A c \in Conns :
        (/\ GetAnswers(c)
         /\ seen[hip[c]].valid /\ seen[hip[c]].stored
         /\ seen[hip[c]].score = 0 /\ seen[hip[c]].country = "Unknown"
         /\ now - seen[hip[c]].t < TTL
         /\ "geterr" \notin eff'[c])
        => (/\ hhit'[c]
            /\ "check" \notin eff'[c]
            /\ hinfo'[c].score = 0
            /\ hinfo'[c].country = "Unknown")]_vars

\* the same for an address that had no row when the failed lookup was
\* stored (the row carries the time of that lookup)
FirstFailedLookupIsCached ==
    [][\A c \in Conns :
        (/\ GetAnswers(c)
         /\ seen[hip[c]].valid /\ seen[hip[c]].stored
         /\ seen[hip[c]].score = 0 /\ seen[hip[c]].country = "Unknown"
         /\ db[hip[c]].present /\ db[hip[c]].ts = seen[hip[c]].t
         /\ now - seen[hip[c]].t < TTL
         /\ "geterr" \notin eff'[c])
        => (/\ hhit'[c]
            /\ "check" \notin eff'[c]
            /\ hinfo'[c].score = 0
            /\ hinfo'[c].country = "Unknown")]_vars

(***************************************************************************)
(* Properties: the two stores                                              *)
(***************************************************************************)
\* C39 as stated: after the same calls and the same time, Get on the
\* database is a hit iff Get on the cache is, and then with the same score
\* and blocked flag.
C39_StoresAgree ==
    \A ip \in IPs :
        /\ DbGet(db, ip, now).present = CacheGet(entries, ip, now).present
        /\ DbGet(db, ip, now).present =>
              /\ DbGet(db, ip, now).score = CacheGet(entries, ip, now).score
              /\ DbGet(db, ip, now).blocked = CacheGet(entries, ip, now).blocked

\* what the two stores share: for an address that was handed to Set once
\* (both hold the time of that Set) and is younger than the ttl, both Gets
\* hit with the same score and blocked flag; and an address that neither
\* holds is a miss on both
StoresAgreeOnFirstSet ==
    \A ip \in IPs :
        /\ (db[ip].present /\ entries[ip].present /\ db[ip].ts = entries[ip].ts
                /\ now - db[ip].ts < TTL) =>
              /\ DbGet(db, ip, now).present /\ CacheGet(entries, ip, now).present
              /\ DbGet(db, ip, now).score = CacheGet(entries, ip, now).score
              /\ DbGet(db, ip, now).blocked = CacheGet(entries, ip, now).blocked
        /\ (~db[ip].present /\ ~entries[ip].present) =>
              (~DbGet(db, ip, now).present /\ ~CacheGet(entries, ip, now).present)

\* a second Set of an address, made when its row is older than the ttl,
\* leaves the database missing and the cache hitting
SecondSetDiverges ==
    \E ip \in IPs :
        /\ sop.op = "set" /\ sop.ip = ip
        /\ entries[ip].ts = now /\ db[ip].ts < now
        /\ ~DbGet(db, ip, now).present /\ CacheGet(entries, ip, now).present

(***************************************************************************)
(* Properties: the queue                                                   *)
(***************************************************************************)
\* the callers that hold the mutex they got for key
Holders(key) == {p \in Threads : qpc[p] = "held" /\ qkey[p] = key}

\* C40 as stated: at any time at most one caller holds the lock of a key.
C40_PerKeyExclusion ==
    \A key \in IPs : Cardinality(Holders(key)) <= 1

\* what the queue does give: a mutex has one holder at most, callers on
\* different keys never have the same mutex (so they never wait for each
\* other), and a key's mutex stays the same as long as nobody removes the key
MutexesAreExclusive ==
    /\ \A p, q \in Threads :
          (p # q /\ qpc[p] = "held" /\ qpc[q] = "held") => qref[p] # qref[q]
    /\ \A p, q \in Threads :
          (qpc[p] # "idle" /\ qpc[q] # "idle" /\ qkey[p] # qkey[q]) => qref[p] # qref[q]
    /\ [][\A key \in IPs :
            (ipScan[key] # 0 /\ ipScan'[key] # ipScan[key]) =>
                \E p \in Threads : qpc[p] = "released" /\ qkey[p] = key /\ qpc'[p] = "idle"]_vars

====
